---- MODULE Spec2Model ----
(***************************************************************************)
(* Write-path storage core of influxdb_iox: typed columns of the mutable   *)
(* buffer, the table batch that owns them, the chunk lifecycle of a        *)
(* partition and the replicated-write envelope.                            *)
(*                                                                         *)
(* Strings are sequences of bytes (naturals), so that lexicographic order  *)
(* and byte lengths are computed and not assumed.  An Option<T> is a       *)
(* sequence of length 0 (None) or 1 (Some).                                *)
(***************************************************************************)
EXTENDS Integers, Sequences, FiniteSets, TLC

VARIABLES
    col,        \* the column under test: None or Some(Column)
    dict,       \* the dictionary of the chunk that owns col
    colLast,    \* the last column operation: its name, inputs and result
    tcols,      \* table batch: column names in insertion order
    tcol,       \* table batch: column name -> Column
    tdict,      \* dictionary of the chunk that owns the table batch
    tlast,      \* the last row offered to the table batch and its outcome
    parts,      \* database: partition key -> None or Some(partition)
    seen,       \* <<partition key, chunk id>> -> latest lifecycle rank observed
    rolled,     \* partition key -> the chunk ids rollover_partition returned
    dlast,      \* the last database call, its outcome and the state before it
    clock,      \* the wall clock, in nanoseconds
    enc,        \* the last call of lines_to_replicated_write and its result
    dec,        \* the last call of ReplicatedWrite::try_from and its result
    server,     \* the TestServer of the fixture: readiness slot, its lock, token
    waiters,    \* task -> where the task is in wait_until_ready, what it found
    pchunk,     \* the immutable chunk of the parquet crate: None or Some(Chunk)
    pqLast,     \* the last call on the immutable chunk, its inputs and result
    NEXT_PORT,      \* static NEXT_PORT: AtomicUsize
    SHARED_SERVER,  \* static SHARED_SERVER: its lock and the Weak<TestServer> it guards
    servers,        \* every TestServer made so far, in the order they were made
    callers         \* caller -> where it is in create_shared / create_single_use

colVars == <<col, dict, colLast>>
tblVars == <<tcols, tcol, tdict, tlast>>
dbVars == <<parts, seen, rolled, dlast>>
encVars == <<clock, enc>>
decVars == <<dec>>
fixVars == <<server, waiters>>
pqVars == <<pchunk, pqLast>>
shVars == <<NEXT_PORT, SHARED_SERVER, servers, callers>>
vars == <<col, dict, colLast, tcols, tcol, tdict, tlast, parts, seen, rolled, dlast,
          clock, enc, dec, server, waiters, pchunk, pqLast,
          NEXT_PORT, SHARED_SERVER, servers, callers>>

----------------------------------------------------------------------------
(* Bounds *)

\* longest column of the column specification
MaxLen == 3
\* most values in one TypedValuesIterator
MaxVals == 2
\* largest row_count given to new_from_typed_values
MaxPad == 2
\* most rows offered to the table batch
MaxRows == 2
\* most rollovers of the database
MaxRollovers == 2
\* most writes to the database
MaxWrites == 2
\* most calls made to the database
MaxCalls == 7
\* most lines given to one call of lines_to_replicated_write
MaxLines == 2
\* most tasks that wait on the readiness slot of one TestServer
MaxTasks == 3
\* most tables added to one immutable chunk
MaxTables == 2
\* largest timestamp of a TimestampRange
MaxTime == 4
\* most callers of create_shared and create_single_use at a time
MaxCallers == 2
\* most TestServers made in one process
MaxServers == 3

----------------------------------------------------------------------------
(* Options and strings *)

\* the element of a singleton set; The({e(x) : x \in {v}}) is e of the value
\* of v, with v evaluated once before e
The(S) == CHOOSE r \in S : TRUE

None == <<>>
Some(v) == <<v>>
IsSome(o) == Len(o) = 1
Unwrap(o) == o[1]

RECURSIVE LexLess(_, _)
\* byte-wise lexicographic order of two strings (Rust's Ord for str)
LexLess(a, b) ==
    IF Len(b) = 0 THEN FALSE
    ELSE IF Len(a) = 0 THEN TRUE
    ELSE IF a[1] < b[1] THEN TRUE
    ELSE IF a[1] > b[1] THEN FALSE
    ELSE LexLess(Tail(a), Tail(b))

s_east == <<1>>
s_eastern == <<1, 2>>
s_west == <<2>>
Strings == {s_east, s_eastern, s_west}

----------------------------------------------------------------------------
(* Dictionary: strings interned to dense ids, id = position - 1 *)

EmptyDictionary == <<>>

DictLookup(d, s) ==
    IF \E i \in 1..Len(d) : d[i] = s
    THEN Some((CHOOSE i \in 1..Len(d) : d[i] = s) - 1)
    ELSE None

\* every call allocates a new id, also for a string the dictionary has
LookupValueOrInsert_AlwaysInsert(d, s) == [dict |-> Append(d, s), id |-> Len(d)]

\* lookup_value_or_insert: the id of s, allocating the next id when unknown
LookupValueOrInsert(d, s) ==
    IF IsSome(DictLookup(d, s))
    THEN [dict |-> d, id |-> Unwrap(DictLookup(d, s))]
    ELSE [dict |-> Append(d, s), id |-> Len(d)]

----------------------------------------------------------------------------
(* StatValues<T>: min, max, count of the values it was told about.         *)
(* null_count is the field the documentation lists; it starts at 0 and     *)
(* only an update for a null would advance it.                             *)

ValueLess(kind, a, b) ==
    CASE kind = "String" -> LexLess(a, b)
      [] kind = "Bool" -> (a = FALSE /\ b = TRUE)
      [] OTHER -> a < b

StatValuesNew(v) == [min |-> v, max |-> v, count |-> 1, null_count |-> 0]

\* mutant: an update never lowers the minimum
StatValuesUpdate_KeepsMin(kind, s, v) ==
    [min |-> s.min,
     max |-> IF ValueLess(kind, s.max, v) THEN v ELSE s.max,
     count |-> s.count + 1,
     null_count |-> s.null_count]

\* StatValues::update and StatValues::update_string
StatValuesUpdate(kind, s, v) ==
    [min |-> IF ValueLess(kind, v, s.min) THEN v ELSE s.min,
     max |-> IF ValueLess(kind, s.max, v) THEN v ELSE s.max,
     count |-> s.count + 1,
     null_count |-> s.null_count]

----------------------------------------------------------------------------
(* Column: one of F64, I64, U64, String, Bool, Tag; each a vector of       *)
(* optional values and the statistics of the column.                       *)

ValueKinds == {"F64", "I64", "U64", "Bool", "String"}
ColumnKinds == {"F64", "I64", "U64", "Bool", "String", "Tag"}
LogicalColumnType == {"Tag", "Field", "Time"}

\* statistics of a Tag column are StatValues<String>
StatKind(kind) == IF kind = "Tag" THEN "String" ELSE kind

NullsOf(n) == [i \in 1..n |-> None]

\* Column::type_description
ColumnTypeDescription(c) ==
    CASE c.kind = "F64" -> "f64"
      [] c.kind = "I64" -> "i64"
      [] c.kind = "U64" -> "u64"
      [] c.kind = "String" -> "String"
      [] c.kind = "Bool" -> "bool"
      [] c.kind = "Tag" -> "tag"

\* TypedValuesIterator::type_description
ValuesTypeDescription(values) ==
    CASE values.kind = "F64" -> "f64"
      [] values.kind = "I64" -> "i64"
      [] values.kind = "U64" -> "u64"
      [] values.kind = "String" -> "String"
      [] values.kind = "Bool" -> "bool"

\* Column::len
ColumnLen(c) == Len(c.vals)

RECURSIVE AppendValues(_, _, _)
\* The loop over the supplied values that both new_from_typed_values and
\* push_typed_values run: a non-null value initialises or updates the
\* statistics and is pushed (a tag as its dictionary id); a null is pushed
\* and the statistics are not told.  acc = [vals, stats (an Option), dict].
AppendValues(ckind, acc, vals) ==
    IF Len(vals) = 0 THEN acc
    ELSE LET val == Head(vals) IN
         IF IsSome(val)
         THEN LET v == Unwrap(val)
                  st == IF IsSome(acc.stats)
                        THEN Some(StatValuesUpdate(StatKind(ckind), Unwrap(acc.stats), v))
                        ELSE Some(StatValuesNew(v))
                  lk == LookupValueOrInsert(acc.dict, v)
              IN AppendValues(ckind,
                     [vals |-> Append(acc.vals, IF ckind = "Tag" THEN Some(lk.id) ELSE Some(v)),
                      stats |-> st,
                      dict |-> IF ckind = "Tag" THEN lk.dict ELSE acc.dict],
                     Tail(vals))
         ELSE AppendValues(ckind,
                     [vals |-> Append(acc.vals, None), stats |-> acc.stats, dict |-> acc.dict],
                     Tail(vals))

\* mutant: the new column is not pre-padded to the table's row count
NewFromTypedValues_NoPrePad(dictionary, row_count, logical_type, values) ==
    IF values.kind = "String" /\ logical_type \notin {"Tag", "Field"}
    THEN [panic |-> TRUE, dict |-> dictionary]
    ELSE LET ckind == IF values.kind = "String"
                      THEN (IF logical_type = "Tag" THEN "Tag" ELSE "String")
                      ELSE values.kind
             r == AppendValues(ckind,
                      [vals |-> <<>>, stats |-> None, dict |-> dictionary],
                      values.vals)
         IN IF IsSome(r.stats)
            THEN [panic |-> FALSE, dict |-> r.dict,
                  col |-> [kind |-> ckind, vals |-> r.vals, stats |-> Unwrap(r.stats)]]
            ELSE [panic |-> TRUE, dict |-> r.dict]

\* mutant: string values always make a String column
NewColumnKind_StringsAreFields(logical_type, values) ==
    values.kind

\* the kind of column that values of a kind and a logical type create
NewColumnKind(logical_type, values) ==
    IF values.kind = "String"
    THEN (IF logical_type = "Tag" THEN "Tag" ELSE "String")
    ELSE values.kind

\* Column::new_from_typed_values.  panic: the "unsupported!" arm and the
\* stats.expect(..) of a column that got no non-null value.
NewFromTypedValues(dictionary, row_count, logical_type, values) ==
    IF values.kind = "String" /\ logical_type \notin {"Tag", "Field"}
    THEN [panic |-> TRUE, dict |-> dictionary]
    ELSE LET ckind == NewColumnKind(logical_type, values)
             r == AppendValues(ckind,
                      [vals |-> NullsOf(row_count), stats |-> None, dict |-> dictionary],
                      values.vals)
         IN IF IsSome(r.stats)
            THEN [panic |-> FALSE, dict |-> r.dict,
                  col |-> [kind |-> ckind, vals |-> r.vals, stats |-> Unwrap(r.stats)]]
            ELSE [panic |-> TRUE, dict |-> r.dict]

\* mutant: the String and Tag arms do not look at the logical type
PushTypeMismatch_NoLogicalType(c, logical_type, values) ==
    CASE c.kind \in {"Bool", "I64", "F64", "U64"} -> values.kind # c.kind
      [] c.kind \in {"String", "Tag"} -> values.kind # "String"

\* the match arms of push_typed_values that return TypeMismatch
PushTypeMismatch(c, logical_type, values) ==
    CASE c.kind \in {"Bool", "I64", "F64", "U64"} -> values.kind # c.kind
      [] c.kind = "String" -> values.kind # "String" \/ logical_type # "Field"
      [] c.kind = "Tag" -> values.kind # "String" \/ logical_type # "Tag"

\* mutant: the values are pushed before the type is checked
PushTypedValues_PushThenCheck(c, dictionary, logical_type, values) ==
    LET r == AppendValues(c.kind,
                 [vals |-> c.vals, stats |-> Some(c.stats), dict |-> dictionary],
                 IF values.kind = "String" \/ c.kind \notin {"String", "Tag"}
                 THEN values.vals ELSE <<>>)
    IN [err |-> PushTypeMismatch(c, logical_type, values), dict |-> r.dict,
        col |-> [kind |-> c.kind, vals |-> r.vals, stats |-> Unwrap(r.stats)]]

\* mutant: a mismatched push fails but retypes the column after the values
PushTypedValues_RetypesOnMismatch(c, dictionary, logical_type, values) ==
    IF PushTypeMismatch(c, logical_type, values)
    THEN [err |-> TRUE, dict |-> dictionary,
          col |-> [c EXCEPT !.kind = NewColumnKind(logical_type, values)],
          existing_column_type |-> ColumnTypeDescription(c),
          inserted_value_type |->
              IF c.kind = "String" /\ values.kind = "String" THEN "tag"
              ELSE ValuesTypeDescription(values)]
    ELSE LET r == AppendValues(c.kind,
                      [vals |-> c.vals, stats |-> Some(c.stats), dict |-> dictionary],
                      values.vals)
         IN [err |-> FALSE, dict |-> r.dict,
             col |-> [kind |-> c.kind, vals |-> r.vals, stats |-> Unwrap(r.stats)]]

\* mutant: the supplied values are appended last first
PushTypedValues_LastFirst(c, dictionary, logical_type, values) ==
    IF PushTypeMismatch(c, logical_type, values)
    THEN [err |-> TRUE, col |-> c, dict |-> dictionary,
          existing_column_type |-> ColumnTypeDescription(c),
          inserted_value_type |->
              IF c.kind = "String" /\ values.kind = "String" THEN "tag"
              ELSE ValuesTypeDescription(values)]
    ELSE LET r == AppendValues(c.kind,
                      [vals |-> c.vals, stats |-> Some(c.stats), dict |-> dictionary],
                      [i \in 1..Len(values.vals) |->
                          values.vals[Len(values.vals) + 1 - i]])
         IN [err |-> FALSE, dict |-> r.dict,
             col |-> [kind |-> c.kind, vals |-> r.vals, stats |-> Unwrap(r.stats)]]

\* Column::push_typed_values
PushTypedValues(c, dictionary, logical_type, values) ==
    IF PushTypeMismatch(c, logical_type, values)
    THEN [err |-> TRUE, col |-> c, dict |-> dictionary,
          existing_column_type |-> ColumnTypeDescription(c),
          inserted_value_type |->
              IF c.kind = "String" /\ values.kind = "String" THEN "tag"
              ELSE ValuesTypeDescription(values)]
    ELSE LET r == AppendValues(c.kind,
                      [vals |-> c.vals, stats |-> Some(c.stats), dict |-> dictionary],
                      values.vals)
         IN [err |-> FALSE, dict |-> r.dict,
             col |-> [kind |-> c.kind, vals |-> r.vals, stats |-> Unwrap(r.stats)]]

\* mem::size_of::<Option<T>>() of the entries of each kind of column
\* (Option<DID> is the size of the dictionary's 32-bit non-zero symbol)
SizeOfOption(kind) ==
    CASE kind \in {"F64", "I64", "U64"} -> 16
      [] kind = "Bool" -> 1
      [] kind = "Tag" -> 4
      [] kind = "String" -> 24

\* mem::size_of_val(&stats): stats is bound by reference in the match on
\* &self, so the value measured is a reference to the statistics
SizeOfRef == 8

RECURSIVE StringBytesSize(_)
\* the fold of Column::size over a String column: the byte lengths of the
\* non-null strings
StringBytesSize(v) ==
    IF Len(v) = 0 THEN 0
    ELSE (IF IsSome(Head(v)) THEN Len(Unwrap(Head(v))) ELSE 0) + StringBytesSize(Tail(v))

\* Column::size
ColumnSize(c) ==
    IF c.kind = "String"
    THEN StringBytesSize(c.vals) + SizeOfOption("String") * Len(c.vals) + SizeOfRef
    ELSE SizeOfOption(c.kind) * Len(c.vals) + SizeOfRef

\* mutant: the vector is resized to len whatever its length
PushNullsToLen_ResizeAlways(c, len) ==
    [c EXCEPT !.vals = SubSeq(c.vals \o NullsOf(len), 1, len)]

\* Column::push_nulls_to_len
PushNullsToLen(c, len) ==
    IF len > Len(c.vals)
    THEN [c EXCEPT !.vals = c.vals \o NullsOf(len - Len(c.vals))]
    ELSE c

----------------------------------------------------------------------------
(* Inputs: TypedValuesIterator values of every kind, up to MaxVals long *)

ValueDomain(kind) ==
    CASE kind = "F64" -> {1, 2}
      [] kind = "I64" -> {-1, 3}
      [] kind = "U64" -> {0, 5}
      [] kind = "Bool" -> {FALSE, TRUE}
      [] kind = "String" -> {s_east, s_west}

OptionsOf(S) == {None} \cup {Some(v) : v \in S}

SeqsUpTo(S, n) == UNION {[1..k -> S] : k \in 0..n}

TypedValues ==
    UNION {{[kind |-> k, vals |-> vs] : vs \in SeqsUpTo(OptionsOf(ValueDomain(k)), MaxVals)}
           : k \in ValueKinds}

\* the values one row carries for one column: none, a null or one value
RowValues ==
    UNION {{[kind |-> k, vals |-> vs] : vs \in SeqsUpTo(OptionsOf(ValueDomain(k)), 1)}
           : k \in ValueKinds}

----------------------------------------------------------------------------
(* Table batch: an insertion-ordered mapping from column name to Column.   *)
(* A row is the tags, the fields and the time of one parsed line.          *)

n_a == <<3>>
n_b == <<4>>
TIME_COLUMN_NAME == <<9>>
ColumnNames == {n_a, n_b}

\* row count of the table batch: the length of its columns
RowCount(names, cols) == IF Len(names) = 0 THEN 0 ELSE ColumnLen(cols[names[1]])

\* the values of a row in the order they are written: tags, fields, time
RowEntries(row) ==
    [i \in 1..Len(row.tags) |->
        [column |-> row.tags[i].column, logical_type |-> "Tag",
         values |-> [kind |-> "String", vals |-> <<Some(row.tags[i].value)>>]]]
    \o
    [i \in 1..Len(row.fields) |->
        [column |-> row.fields[i].column, logical_type |-> "Field",
         values |-> [kind |-> row.fields[i].kind, vals |-> <<Some(row.fields[i].value)>>]]]
    \o
    << [column |-> TIME_COLUMN_NAME, logical_type |-> "Time",
        values |-> [kind |-> "I64", vals |-> <<Some(row.time)>>]] >>

HasColumn(names, name) == \E i \in 1..Len(names) : names[i] = name

\* ensure_column, then push the value: an existing column takes the value
\* with push_typed_values, an absent one is created by new_from_typed_values
\* padded to the row count the table had before the row
WriteEntry(t, row_count, e) ==
    IF HasColumn(t.names, e.column)
    THEN LET r == PushTypedValues(t.cols[e.column], t.dict, e.logical_type, e.values)
         IN IF r.err
            THEN [t EXCEPT !.err = TRUE]
            ELSE [t EXCEPT !.cols[e.column] = r.col, !.dict = r.dict]
    ELSE LET r == NewFromTypedValues(t.dict, row_count, e.logical_type, e.values)
         IN [names |-> Append(t.names, e.column),
             cols |-> [n \in DOMAIN t.cols \cup {e.column} |->
                          IF n = e.column THEN r.col ELSE t.cols[n]],
             dict |-> r.dict,
             err |-> FALSE]

RECURSIVE WriteEntries(_, _, _)
\* the entries of a row in order, stopping at the first TypeMismatch
WriteEntries(t, row_count, es) ==
    IF Len(es) = 0 \/ t.err THEN t
    ELSE WriteEntries(WriteEntry(t, row_count, Head(es)), row_count, Tail(es))

\* every column of the table null-padded to len
PadColumns(t, len) ==
    [t EXCEPT !.cols = [n \in DOMAIN t.cols |-> PushNullsToLen(t.cols[n], len)]]

\* append_row: the row's values are written, the columns the row did not
\* write are null-padded to the new row count; a row that fails leaves the
\* table batch as it was before the row
AppendRow(names, cols, dictionary, row) ==
    LET before == [names |-> names, cols |-> cols, dict |-> dictionary, err |-> FALSE]
        row_count == RowCount(names, cols)
        written == WriteEntries(before, row_count, RowEntries(row))
    IN IF written.err
       THEN [before EXCEPT !.err = TRUE]
       ELSE PadColumns(written, row_count + 1)

----------------------------------------------------------------------------
(* Rows offered to the table batch *)

TagEntries == {[column |-> n, value |-> v] : n \in ColumnNames, v \in {s_east, s_west}}

\* one field value of every kind a line can carry
FieldValues ==
    {[kind |-> "F64", value |-> 1], [kind |-> "I64", value |-> 3],
     [kind |-> "U64", value |-> 5], [kind |-> "Bool", value |-> TRUE],
     [kind |-> "String", value |-> s_east]}

FieldEntries ==
    {[column |-> n, kind |-> fv.kind, value |-> fv.value] : n \in ColumnNames, fv \in FieldValues}

\* a parsed line has at least one field and unique keys among its fields
FieldSeqs ==
    {<<f>> : f \in FieldEntries}
    \cup {<<f, g>> : f \in {x \in FieldEntries : x.column = n_a /\ x.kind \in {"F64", "String"}},
                     g \in {x \in FieldEntries : x.column = n_b}}

RowTimes == {100}

Rows ==
    {[tags |-> ts, fields |-> fs, time |-> t] :
        ts \in {<<>>} \cup {<<e>> : e \in TagEntries}, fs \in FieldSeqs, t \in RowTimes}

----------------------------------------------------------------------------
(* Database: the chunks of each partition in the mutable buffer and in the *)
(* read buffer, with the lifecycle state of each chunk.                    *)

pk_1970 == <<7>>
pk_1971 == <<8>>
PartitionKeys == {pk_1970, pk_1971}

Lifecycle == <<"OpenMutable", "ClosedMutable", "Immutable", "Persisted">>

\* position of a lifecycle state in the order of the lifecycle
LifecycleRank(state) == CHOOSE i \in 1..Len(Lifecycle) : Lifecycle[i] = state

\* Chunk::new: an empty chunk, open for writes, in the mutable buffer only
NewChunk == [state |-> "OpenMutable", in_mb |-> TRUE, in_rb |-> FALSE, rows |-> <<>>]

\* a partition starts with its open chunk, chunk 0
NewPartition == [next_id |-> 1, chunks |-> (0 :> NewChunk)]

\* the partition of a key, created when the key is first used
GetPartition(ps, key) == IF IsSome(ps[key]) THEN Unwrap(ps[key]) ELSE NewPartition

OpenChunkId(part) == CHOOSE id \in DOMAIN part.chunks : part.chunks[id].state = "OpenMutable"

\* mutable_buffer_chunks(partition_key) and read_buffer_chunks(partition_key)
MutableBufferChunks(part) == {id \in DOMAIN part.chunks : part.chunks[id].in_mb}
ReadBufferChunks(part) == {id \in DOMAIN part.chunks : part.chunks[id].in_rb}

\* mutant: the next chunk id is the number of chunks the partition holds
NextChunkId_CountChunks(part) == Cardinality(DOMAIN part.chunks)

\* the id of the chunk a rollover opens
NextChunkId(part) == part.next_id

\* mutant: a chunk takes rows in whatever state it is
ChunkAcceptsWrite_Always(chunk) == chunk.in_mb

\* a chunk takes rows only while it is open
ChunkAcceptsWrite(chunk) == chunk.state = "OpenMutable"

\* freeze is allowed only from ClosedMutable
ChunkCanFreeze(chunk) == chunk.state = "ClosedMutable"

\* mutant: the partition opens a new chunk beside the open one
Rollover_KeepOpen(part) ==
    [next_id |-> part.next_id + 1,
     chunks |-> [id \in DOMAIN part.chunks \cup {part.next_id} |->
                    IF id = part.next_id THEN NewChunk ELSE part.chunks[id]]]

\* rollover: the open chunk is closed and a new open chunk takes its place
Rollover(part) ==
    LET open == OpenChunkId(part)
        new_id == NextChunkId(part)
    IN [next_id |-> new_id + 1,
        chunks |-> [id \in DOMAIN part.chunks \cup {new_id} |->
                       IF id = new_id THEN NewChunk
                       ELSE IF id = open
                            THEN [part.chunks[id] EXCEPT !.state = "ClosedMutable"]
                            ELSE part.chunks[id]]]

\* mutant: loading moves the chunk out of the mutable buffer
LoadToReadBuffer_Moves(part, id) ==
    [part EXCEPT !.chunks[id].state = "Immutable",
                 !.chunks[id].in_rb = TRUE,
                 !.chunks[id].in_mb = FALSE]

\* load_chunk_to_read_buffer: the closed chunk is copied to the read buffer
\* ("Data in both read buffer and mutable buffer")
LoadToReadBuffer(part, id) ==
    [part EXCEPT !.chunks[id].state = "Immutable", !.chunks[id].in_rb = TRUE]

\* mutant: dropping from the mutable buffer reopens a chunk the read buffer holds
DropMutable_Reopen(part, id) ==
    IF part.chunks[id].in_rb
    THEN [part EXCEPT !.chunks[id].state = "ClosedMutable", !.chunks[id].in_rb = FALSE]
    ELSE [part EXCEPT !.chunks = [i \in DOMAIN part.chunks \ {id} |-> part.chunks[i]]]

\* the chunk leaves the mutable buffer; it stays known while the read
\* buffer holds it
DropMutable(part, id) ==
    IF part.chunks[id].in_rb
    THEN [part EXCEPT !.chunks[id].in_mb = FALSE]
    ELSE [part EXCEPT !.chunks = [i \in DOMAIN part.chunks \ {id} |-> part.chunks[i]]]


----------------------------------------------------------------------------
(* Replicated write: bytes are naturals below 256; a u32 is its 4 bytes and *)
(* a u64 its 8 bytes, least significant first, so that no width is lost.    *)

\* CRC-32 (IEEE, reflected) as crc32fast's table-driven Hasher computes it;
\* the register is held as its 4 bytes, least significant first.
\* XorNibble[a + 1][b + 1] is a xor b for a, b below 16
XorNibble ==
    <<
       <<0, 1, 2, 3, 4, 5, 6, 7, 8, 9, 10, 11, 12, 13, 14, 15>>,
       <<1, 0, 3, 2, 5, 4, 7, 6, 9, 8, 11, 10, 13, 12, 15, 14>>,
       <<2, 3, 0, 1, 6, 7, 4, 5, 10, 11, 8, 9, 14, 15, 12, 13>>,
       <<3, 2, 1, 0, 7, 6, 5, 4, 11, 10, 9, 8, 15, 14, 13, 12>>,
       <<4, 5, 6, 7, 0, 1, 2, 3, 12, 13, 14, 15, 8, 9, 10, 11>>,
       <<5, 4, 7, 6, 1, 0, 3, 2, 13, 12, 15, 14, 9, 8, 11, 10>>,
       <<6, 7, 4, 5, 2, 3, 0, 1, 14, 15, 12, 13, 10, 11, 8, 9>>,
       <<7, 6, 5, 4, 3, 2, 1, 0, 15, 14, 13, 12, 11, 10, 9, 8>>,
       <<8, 9, 10, 11, 12, 13, 14, 15, 0, 1, 2, 3, 4, 5, 6, 7>>,
       <<9, 8, 11, 10, 13, 12, 15, 14, 1, 0, 3, 2, 5, 4, 7, 6>>,
       <<10, 11, 8, 9, 14, 15, 12, 13, 2, 3, 0, 1, 6, 7, 4, 5>>,
       <<11, 10, 9, 8, 15, 14, 13, 12, 3, 2, 1, 0, 7, 6, 5, 4>>,
       <<12, 13, 14, 15, 8, 9, 10, 11, 4, 5, 6, 7, 0, 1, 2, 3>>,
       <<13, 12, 15, 14, 9, 8, 11, 10, 5, 4, 7, 6, 1, 0, 3, 2>>,
       <<14, 15, 12, 13, 10, 11, 8, 9, 6, 7, 4, 5, 2, 3, 0, 1>>,
       <<15, 14, 13, 12, 11, 10, 9, 8, 7, 6, 5, 4, 3, 2, 1, 0>>
    >>

XorByte(a, b) ==
    XorNibble[(a % 16) + 1][(b % 16) + 1]
    + 16 * XorNibble[(a \div 16) + 1][(b \div 16) + 1]

\* CrcTable[n + 1]: the register after the byte n is shifted out 8 times,
\* crc = (crc >> 1) ^ (0xEDB88320 if crc & 1)
CrcTable ==
    <<
       <<0, 0, 0, 0>>, <<150, 48, 7, 119>>, <<44, 97, 14, 238>>, <<186, 81, 9, 153>>,
       <<25, 196, 109, 7>>, <<143, 244, 106, 112>>, <<53, 165, 99, 233>>, <<163, 149, 100, 158>>,
       <<50, 136, 219, 14>>, <<164, 184, 220, 121>>, <<30, 233, 213, 224>>, <<136, 217, 210, 151>>,
       <<43, 76, 182, 9>>, <<189, 124, 177, 126>>, <<7, 45, 184, 231>>, <<145, 29, 191, 144>>,
       <<100, 16, 183, 29>>, <<242, 32, 176, 106>>, <<72, 113, 185, 243>>, <<222, 65, 190, 132>>,
       <<125, 212, 218, 26>>, <<235, 228, 221, 109>>, <<81, 181, 212, 244>>, <<199, 133, 211, 131>>,
       <<86, 152, 108, 19>>, <<192, 168, 107, 100>>, <<122, 249, 98, 253>>, <<236, 201, 101, 138>>,
       <<79, 92, 1, 20>>, <<217, 108, 6, 99>>, <<99, 61, 15, 250>>, <<245, 13, 8, 141>>,
       <<200, 32, 110, 59>>, <<94, 16, 105, 76>>, <<228, 65, 96, 213>>, <<114, 113, 103, 162>>,
       <<209, 228, 3, 60>>, <<71, 212, 4, 75>>, <<253, 133, 13, 210>>, <<107, 181, 10, 165>>,
       <<250, 168, 181, 53>>, <<108, 152, 178, 66>>, <<214, 201, 187, 219>>, <<64, 249, 188, 172>>,
       <<227, 108, 216, 50>>, <<117, 92, 223, 69>>, <<207, 13, 214, 220>>, <<89, 61, 209, 171>>,
       <<172, 48, 217, 38>>, <<58, 0, 222, 81>>, <<128, 81, 215, 200>>, <<22, 97, 208, 191>>,
       <<181, 244, 180, 33>>, <<35, 196, 179, 86>>, <<153, 149, 186, 207>>, <<15, 165, 189, 184>>,
       <<158, 184, 2, 40>>, <<8, 136, 5, 95>>, <<178, 217, 12, 198>>, <<36, 233, 11, 177>>,
       <<135, 124, 111, 47>>, <<17, 76, 104, 88>>, <<171, 29, 97, 193>>, <<61, 45, 102, 182>>,
       <<144, 65, 220, 118>>, <<6, 113, 219, 1>>, <<188, 32, 210, 152>>, <<42, 16, 213, 239>>,
       <<137, 133, 177, 113>>, <<31, 181, 182, 6>>, <<165, 228, 191, 159>>, <<51, 212, 184, 232>>,
       <<162, 201, 7, 120>>, <<52, 249, 0, 15>>, <<142, 168, 9, 150>>, <<24, 152, 14, 225>>,
       <<187, 13, 106, 127>>, <<45, 61, 109, 8>>, <<151, 108, 100, 145>>, <<1, 92, 99, 230>>,
       <<244, 81, 107, 107>>, <<98, 97, 108, 28>>, <<216, 48, 101, 133>>, <<78, 0, 98, 242>>,
       <<237, 149, 6, 108>>, <<123, 165, 1, 27>>, <<193, 244, 8, 130>>, <<87, 196, 15, 245>>,
       <<198, 217, 176, 101>>, <<80, 233, 183, 18>>, <<234, 184, 190, 139>>, <<124, 136, 185, 252>>,
       <<223, 29, 221, 98>>, <<73, 45, 218, 21>>, <<243, 124, 211, 140>>, <<101, 76, 212, 251>>,
       <<88, 97, 178, 77>>, <<206, 81, 181, 58>>, <<116, 0, 188, 163>>, <<226, 48, 187, 212>>,
       <<65, 165, 223, 74>>, <<215, 149, 216, 61>>, <<109, 196, 209, 164>>, <<251, 244, 214, 211>>,
       <<106, 233, 105, 67>>, <<252, 217, 110, 52>>, <<70, 136, 103, 173>>, <<208, 184, 96, 218>>,
       <<115, 45, 4, 68>>, <<229, 29, 3, 51>>, <<95, 76, 10, 170>>, <<201, 124, 13, 221>>,
       <<60, 113, 5, 80>>, <<170, 65, 2, 39>>, <<16, 16, 11, 190>>, <<134, 32, 12, 201>>,
       <<37, 181, 104, 87>>, <<179, 133, 111, 32>>, <<9, 212, 102, 185>>, <<159, 228, 97, 206>>,
       <<14, 249, 222, 94>>, <<152, 201, 217, 41>>, <<34, 152, 208, 176>>, <<180, 168, 215, 199>>,
       <<23, 61, 179, 89>>, <<129, 13, 180, 46>>, <<59, 92, 189, 183>>, <<173, 108, 186, 192>>,
       <<32, 131, 184, 237>>, <<182, 179, 191, 154>>, <<12, 226, 182, 3>>, <<154, 210, 177, 116>>,
       <<57, 71, 213, 234>>, <<175, 119, 210, 157>>, <<21, 38, 219, 4>>, <<131, 22, 220, 115>>,
       <<18, 11, 99, 227>>, <<132, 59, 100, 148>>, <<62, 106, 109, 13>>, <<168, 90, 106, 122>>,
       <<11, 207, 14, 228>>, <<157, 255, 9, 147>>, <<39, 174, 0, 10>>, <<177, 158, 7, 125>>,
       <<68, 147, 15, 240>>, <<210, 163, 8, 135>>, <<104, 242, 1, 30>>, <<254, 194, 6, 105>>,
       <<93, 87, 98, 247>>, <<203, 103, 101, 128>>, <<113, 54, 108, 25>>, <<231, 6, 107, 110>>,
       <<118, 27, 212, 254>>, <<224, 43, 211, 137>>, <<90, 122, 218, 16>>, <<204, 74, 221, 103>>,
       <<111, 223, 185, 249>>, <<249, 239, 190, 142>>, <<67, 190, 183, 23>>, <<213, 142, 176, 96>>,
       <<232, 163, 214, 214>>, <<126, 147, 209, 161>>, <<196, 194, 216, 56>>, <<82, 242, 223, 79>>,
       <<241, 103, 187, 209>>, <<103, 87, 188, 166>>, <<221, 6, 181, 63>>, <<75, 54, 178, 72>>,
       <<218, 43, 13, 216>>, <<76, 27, 10, 175>>, <<246, 74, 3, 54>>, <<96, 122, 4, 65>>,
       <<195, 239, 96, 223>>, <<85, 223, 103, 168>>, <<239, 142, 110, 49>>, <<121, 190, 105, 70>>,
       <<140, 179, 97, 203>>, <<26, 131, 102, 188>>, <<160, 210, 111, 37>>, <<54, 226, 104, 82>>,
       <<149, 119, 12, 204>>, <<3, 71, 11, 187>>, <<185, 22, 2, 34>>, <<47, 38, 5, 85>>,
       <<190, 59, 186, 197>>, <<40, 11, 189, 178>>, <<146, 90, 180, 43>>, <<4, 106, 179, 92>>,
       <<167, 255, 215, 194>>, <<49, 207, 208, 181>>, <<139, 158, 217, 44>>, <<29, 174, 222, 91>>,
       <<176, 194, 100, 155>>, <<38, 242, 99, 236>>, <<156, 163, 106, 117>>, <<10, 147, 109, 2>>,
       <<169, 6, 9, 156>>, <<63, 54, 14, 235>>, <<133, 103, 7, 114>>, <<19, 87, 0, 5>>,
       <<130, 74, 191, 149>>, <<20, 122, 184, 226>>, <<174, 43, 177, 123>>, <<56, 27, 182, 12>>,
       <<155, 142, 210, 146>>, <<13, 190, 213, 229>>, <<183, 239, 220, 124>>, <<33, 223, 219, 11>>,
       <<212, 210, 211, 134>>, <<66, 226, 212, 241>>, <<248, 179, 221, 104>>, <<110, 131, 218, 31>>,
       <<205, 22, 190, 129>>, <<91, 38, 185, 246>>, <<225, 119, 176, 111>>, <<119, 71, 183, 24>>,
       <<230, 90, 8, 136>>, <<112, 106, 15, 255>>, <<202, 59, 6, 102>>, <<92, 11, 1, 17>>,
       <<255, 158, 101, 143>>, <<105, 174, 98, 248>>, <<211, 255, 107, 97>>, <<69, 207, 108, 22>>,
       <<120, 226, 10, 160>>, <<238, 210, 13, 215>>, <<84, 131, 4, 78>>, <<194, 179, 3, 57>>,
       <<97, 38, 103, 167>>, <<247, 22, 96, 208>>, <<77, 71, 105, 73>>, <<219, 119, 110, 62>>,
       <<74, 106, 209, 174>>, <<220, 90, 214, 217>>, <<102, 11, 223, 64>>, <<240, 59, 216, 55>>,
       <<83, 174, 188, 169>>, <<197, 158, 187, 222>>, <<127, 207, 178, 71>>, <<233, 255, 181, 48>>,
       <<28, 242, 189, 189>>, <<138, 194, 186, 202>>, <<48, 147, 179, 83>>, <<166, 163, 180, 36>>,
       <<5, 54, 208, 186>>, <<147, 6, 215, 205>>, <<41, 87, 222, 84>>, <<191, 103, 217, 35>>,
       <<46, 122, 102, 179>>, <<184, 74, 97, 196>>, <<2, 27, 104, 93>>, <<148, 43, 111, 42>>,
       <<55, 190, 11, 180>>, <<161, 142, 12, 195>>, <<27, 223, 5, 90>>, <<141, 239, 2, 45>>
    >>

\* crc = table[(crc ^ byte) & 0xff] ^ (crc >> 8)
CrcByte(crc, byte) ==
    LET t == CrcTable[XorByte(crc[1], byte) + 1]
    IN << XorByte(t[1], crc[2]), XorByte(t[2], crc[3]), XorByte(t[3], crc[4]), t[4] >>

\* hasher.update(bytes[i..j]): the register after the bytes i..j, by halves
RECURSIVE CrcUpdate(_, _, _, _)
CrcUpdate(crc, bytes, i, j) ==
    IF i > j THEN crc
    ELSE IF i = j THEN CrcByte(crc, bytes[i])
    ELSE LET mid == (i + j) \div 2
             half == CrcUpdate(crc, bytes, i, mid)
         IN IF Len(half) = 4 THEN CrcUpdate(half, bytes, mid + 1, j) ELSE half

\* Hasher::new, update, finalize: the checksum as its 4 bytes
CRC32(bytes) ==
    The({<< 255 - crc[1], 255 - crc[2], 255 - crc[3], 255 - crc[4] >> :
            crc \in {CrcUpdate(<<255, 255, 255, 255>>, b, 1, Len(b)) : b \in {bytes}}})

----------------------------------------------------------------------------
(* Flat-buffer tables: builder and verifier                                *)
(*                                                                         *)
(* A table is written as one byte of slot presence followed by the slots   *)
(* that are present, in schema order.  A scalar slot that holds its        *)
(* default is left out by the builder and read back as the default.        *)
(* Strings and vectors carry a 32-bit little-endian length.                *)

Zero4 == <<0, 0, 0, 0>>
Zero8 == <<0, 0, 0, 0, 0, 0, 0, 0>>

\* Pow2[i] is the presence bit of slot i
Pow2 == <<1, 2, 4, 8, 16>>

RECURSIVE Concat(_)
Concat(ss) == IF Len(ss) = 0 THEN <<>> ELSE Head(ss) \o Concat(Tail(ss))

\* a length below 2^16 as a u32, least significant byte first
EncLength(n) == <<n % 256, n \div 256, 0, 0>>

\* i64::to_le_bytes for a value that fits 32 bits, two's complement
I64Bytes(v) ==
    LET u == IF v >= 0 THEN v ELSE (0 - v) - 1
        lo == <<u % 256, (u \div 256) % 256, (u \div 65536) % 256, u \div 16777216>>
    IN IF v >= 0
       THEN <<lo[1], lo[2], lo[3], lo[4], 0, 0, 0, 0>>
       ELSE <<255 - lo[1], 255 - lo[2], 255 - lo[3], 255 - lo[4], 255, 255, 255, 255>>

\* FlatBufferBuilder::create_string
EncString(s) == EncLength(Len(s)) \o s

\* FlatBufferBuilder::create_vector of tables
EncVector(items) == EncLength(Len(items)) \o Concat(items)

\* FlatBufferBuilder::push_slot: a scalar equal to its default is not written
Scalar(bytes, default) == IF bytes = default THEN None ELSE Some(bytes)

RECURSIVE SlotMask(_, _)
SlotMask(slots, i) ==
    IF i > Len(slots) THEN 0
    ELSE (IF IsSome(slots[i]) THEN Pow2[i] ELSE 0) + SlotMask(slots, i + 1)

\* start_table .. end_table: slots is the sequence of Option<bytes>; the
\* inner Concat drops the absent slots, the outer one joins the present
EncTable(slots) == <<SlotMask(slots, 1)>> \o Concat(Concat(slots))

\* wb::ColumnValue
ColumnValue_NONE == 0
TagValue == 1
I64Value == 2
U64Value == 3
F64Value == 4
BoolValue == 5
StringValue == 6

\* the table that a union slot of each ColumnValue holds
UnionTable ==
    <<"TagValue", "I64Value", "U64Value", "F64Value", "BoolValue", "StringValue">>

ScalarSlot(n) == [type |-> "scalar", size |-> n, of |-> ""]
StringSlot == [type |-> "string", size |-> 0, of |-> ""]
VectorSlot(kind) == [type |-> "vector", size |-> 0, of |-> kind]
UnionSlot == [type |-> "union", size |-> 0, of |-> ""]

\* the slots of each table of the wal schema, in field order
TableSchema(kind) ==
    CASE kind = "ReplicatedWrite" ->
            <<ScalarSlot(4), ScalarSlot(8), ScalarSlot(4), StringSlot>>
      [] kind = "WriteBufferBatch" -> <<VectorSlot("WriteBufferEntry")>>
      [] kind = "WriteBufferEntry" -> <<StringSlot, VectorSlot("TableWriteBatch")>>
      [] kind = "TableWriteBatch" -> <<StringSlot, VectorSlot("Row")>>
      [] kind = "Row" -> <<VectorSlot("Value")>>
      [] kind = "Value" -> <<StringSlot, ScalarSlot(1), UnionSlot>>
      [] kind = "TagValue" -> <<StringSlot>>
      [] kind = "StringValue" -> <<StringSlot>>
      [] kind = "I64Value" -> <<ScalarSlot(8)>>
      [] kind = "U64Value" -> <<ScalarSlot(8)>>
      [] kind = "F64Value" -> <<ScalarSlot(8)>>
      [] kind = "BoolValue" -> <<ScalarSlot(1)>>

Failed == [ok |-> FALSE, pos |-> 0, val |-> <<>>]
Parsed(p, v) == [ok |-> TRUE, pos |-> p, val |-> v]

Bit(mask, i) == (mask \div Pow2[i]) % 2

\* n bytes at position p, bounds checked
ParseScalar(b, p, n) ==
    IF p + n - 1 > Len(b) THEN Failed
    ELSE Parsed(p + n, SubSeq(b, p, p + n - 1))

ParseLength(b, p) ==
    LET r == ParseScalar(b, p, 4)
    IN IF ~r.ok THEN Failed
       ELSE IF r.val[3] # 0 \/ r.val[4] # 0 THEN Failed
       ELSE Parsed(r.pos, r.val[1] + 256 * r.val[2])

ParseString(b, p) ==
    LET n == ParseLength(b, p)
    IN IF ~n.ok THEN Failed ELSE ParseScalar(b, n.pos, n.val)

RECURSIVE ParseTable(_, _, _)
RECURSIVE ParseSlots(_, _, _, _, _, _)
RECURSIVE ParseItems(_, _, _, _, _)

\* the verifier's visit of one table; val is the sequence of Option<slot>
ParseTable(kind, b, p) ==
    IF p > Len(b) THEN Failed
    ELSE LET schema == TableSchema(kind)
         IN IF b[p] >= Pow2[Len(schema) + 1] THEN Failed
            ELSE ParseSlots(schema, b[p], b, p + 1, 1, <<>>)

ParseSlots(schema, mask, b, p, i, acc) ==
    IF i > Len(schema) THEN Parsed(p, acc)
    ELSE IF Bit(mask, i) = 0
    THEN ParseSlots(schema, mask, b, p, i + 1, Append(acc, None))
    ELSE LET slot == schema[i]
             value_type == IF Len(acc) >= 2 /\ IsSome(acc[2])
                           THEN Unwrap(acc[2])[1] ELSE ColumnValue_NONE
             r == CASE slot.type = "scalar" -> ParseScalar(b, p, slot.size)
                    [] slot.type = "string" -> ParseString(b, p)
                    [] slot.type = "vector" ->
                         LET n == ParseLength(b, p)
                         IN IF ~n.ok THEN Failed
                            ELSE ParseItems(slot.of, b, n.pos, n.val, <<>>)
                    [] slot.type = "union" ->
                         IF value_type \in 1..Len(UnionTable)
                         THEN ParseTable(UnionTable[value_type], b, p)
                         ELSE Failed
         IN IF ~r.ok THEN Failed
            ELSE ParseSlots(schema, mask, b, r.pos, i + 1, Append(acc, Some(r.val)))

ParseItems(kind, b, p, n, acc) ==
    IF n = 0 THEN Parsed(p, acc)
    ELSE LET r == ParseTable(kind, b, p)
         IN IF ~r.ok THEN Failed
            ELSE ParseItems(kind, b, r.pos, n - 1, Append(acc, r.val))

\* flatbuffers::root::<T>(data)
Root(kind, data) == ParseTable(kind, data, 1)

----------------------------------------------------------------------------
(* ReplicatedWrite                                                         *)

\* generated accessors of wb::ReplicatedWrite: an absent scalar reads as 0
FbWriter(fb) == IF IsSome(fb[1]) THEN Unwrap(fb[1]) ELSE Zero4
FbSequence(fb) == IF IsSome(fb[2]) THEN Unwrap(fb[2]) ELSE Zero8
FbChecksum(fb) == IF IsSome(fb[3]) THEN Unwrap(fb[3]) ELSE Zero4
FbPayload(fb) == fb[4]

InvalidFlatbuffer ==
    [ok |-> FALSE, data |-> <<>>, fb |-> <<>>, write_buffer_batch |-> None]

\* an envelope without payload refused: None => Err(..)
WriteBufferBatchOf_PayloadRequired(data, fb) ==
    IF IsSome(FbPayload(fb))
    THEN The({IF ~batch.ok THEN InvalidFlatbuffer
              ELSE [ok |-> TRUE, data |-> data, fb |-> fb,
                    write_buffer_batch |-> Some(batch.val)] :
                 batch \in {Root("WriteBufferBatch", Unwrap(FbPayload(fb)))}})
    ELSE InvalidFlatbuffer

\* write_buffer_batch_builder: the batch view of a verified envelope fb
WriteBufferBatchOf(data, fb) ==
    IF IsSome(FbPayload(fb))
    THEN The({IF ~batch.ok THEN InvalidFlatbuffer
              ELSE [ok |-> TRUE, data |-> data, fb |-> fb,
                    write_buffer_batch |-> Some(batch.val)] :
                 batch \in {Root("WriteBufferBatch", Unwrap(FbPayload(fb)))}})
    ELSE [ok |-> TRUE, data |-> data, fb |-> fb, write_buffer_batch |-> None]

\* mutant: an envelope whose checksum is not the CRC32 of its payload is
\* refused
TryFrom_ChecksumVerified(data) ==
    The({The({IF ~fb.ok THEN InvalidFlatbuffer
              ELSE IF IsSome(FbPayload(fb.val))
                      /\ FbChecksum(fb.val) # CRC32(Unwrap(FbPayload(fb.val)))
                   THEN InvalidFlatbuffer
                   ELSE WriteBufferBatchOf(bytes, fb.val) :
                 fb \in {Root("ReplicatedWrite", bytes)}}) :
            bytes \in {data}})

\* impl TryFrom<Vec<u8>> for ReplicatedWrite
TryFrom(data) ==
    The({The({IF ~fb.ok THEN InvalidFlatbuffer
              ELSE WriteBufferBatchOf(bytes, fb.val) :
                 fb \in {Root("ReplicatedWrite", bytes)}}) :
            bytes \in {data}})

equal_to_writer_and_sequence(rw, writer_id, sequence_number) ==
    FbWriter(rw.fb) = writer_id /\ FbSequence(rw.fb) = sequence_number

writer_and_sequence(rw) == <<FbWriter(rw.fb), FbSequence(rw.fb)>>

entry_count(rw) ==
    IF ~IsSome(rw.write_buffer_batch) THEN 0
    ELSE LET entries == Unwrap(rw.write_buffer_batch)[1]
         IN IF IsSome(entries) THEN Len(Unwrap(entries)) ELSE 0

----------------------------------------------------------------------------
(* Views of a decoded ReplicatedWrite                                      *)

OrEmpty(o) == IF IsSome(o) THEN Unwrap(o) ELSE <<>>

\* write_buffer_batch().entries(), as Display walks it
BatchEntries(rw) ==
    IF IsSome(rw.write_buffer_batch)
    THEN OrEmpty(Unwrap(rw.write_buffer_batch)[1]) ELSE <<>>

\* entry.partition_key(), entry.table_batches()
EntryPartitionKey(e) == e[1]
EntryTableBatches(e) == OrEmpty(e[2])

\* table.name(), table.rows()
TableName(t) == t[1]
TableRows(t) == OrEmpty(t[2])

\* row.values()
RowValueList(r) == OrEmpty(r[1])

\* value.column(), value.value_type()
ValueColumn(v) == v[1]
ValueType(v) == IF IsSome(v[2]) THEN Unwrap(v[2])[1] ELSE ColumnValue_NONE

\* value.value_as_<type>().value(): an absent scalar reads as its default,
\* an absent string is read with unwrap_or("")
ValueOf(v) ==
    LET slot == IF IsSome(v[3]) THEN Unwrap(v[3])[1] ELSE None
    IN IF IsSome(slot) THEN Unwrap(slot)
       ELSE IF ValueType(v) \in {I64Value, U64Value, F64Value} THEN Zero8
       ELSE IF ValueType(v) = BoolValue THEN <<0>>
       ELSE <<>>

\* a decoded value as (column, value_type, value)
DecodedValue(v) ==
    [column |-> OrEmpty(ValueColumn(v)), value_type |-> ValueType(v),
     value |-> ValueOf(v)]

DecodedRow(r) == [k \in 1..Len(RowValueList(r)) |-> DecodedValue(RowValueList(r)[k])]

\* the decoded rows under partition key `key` and table `name`, in payload
\* order
RowsAt(rw, key, name) ==
    LET entries == SelectSeq(BatchEntries(rw),
                             LAMBDA e : EntryPartitionKey(e) = Some(key))
    IN Concat([i \in 1..Len(entries) |->
           LET tables == SelectSeq(EntryTableBatches(entries[i]),
                                   LAMBDA t : TableName(t) = Some(name))
           IN Concat([j \in 1..Len(tables) |->
                  [k \in 1..Len(TableRows(tables[j])) |->
                      DecodedRow(TableRows(tables[j])[k])]])])

\* every decoded row with the partition key of its entry and the name of its
\* table, in payload order
AllRows(rw) ==
    LET entries == BatchEntries(rw)
    IN Concat([e \in 1..Len(entries) |->
           LET tables == EntryTableBatches(entries[e])
           IN Concat([t \in 1..Len(tables) |->
                  [k \in 1..Len(TableRows(tables[t])) |->
                      [partition_key |-> EntryPartitionKey(entries[e]),
                       table |-> TableName(tables[t]),
                       row |-> DecodedRow(TableRows(tables[t])[k])]]])])

----------------------------------------------------------------------------
(* Parsed lines and the partitioner                                        *)

m_cpu == <<5>>
m_disk == <<6>>
k_region == <<10>>
k_user == <<11>>
k_bytes == <<12>>
k_ok == <<13>>
k_host == <<14>>

\* f64::to_le_bytes of 23.2
f64_23_2 == <<51, 51, 51, 51, 51, 51, 55, 64>>

\* cpu,region=west user=23.2 100
line_cpu_100 ==
    [measurement |-> m_cpu,
     tag_set |-> Some(<<[column |-> k_region, value |-> s_west]>>),
     field_set |-> <<[column |-> k_user, type |-> "F64", value |-> f64_23_2]>>,
     timestamp |-> Some(100)]

\* disk,region=east bytes=0i 250
line_disk_250 ==
    [measurement |-> m_disk,
     tag_set |-> Some(<<[column |-> k_region, value |-> s_east]>>),
     field_set |-> <<[column |-> k_bytes, type |-> "I64", value |-> 0]>>,
     timestamp |-> Some(250)]

\* disk bytes=5u,ok=true,host="east"
line_disk_now ==
    [measurement |-> m_disk,
     tag_set |-> None,
     field_set |-> <<[column |-> k_bytes, type |-> "U64", value |-> 5],
                     [column |-> k_ok, type |-> "Boolean", value |-> TRUE],
                     [column |-> k_host, type |-> "String", value |-> s_east]>>,
     timestamp |-> None]

ParsedLines == {line_cpu_100, line_disk_250, line_disk_now}

\* nanoseconds per time bucket of the time partitioner
BucketWidth == 100

Partitioners == {"Table", "Time"}

\* Partitioner::partition_key(line, default_time)
PartitionKey(partitioner, line, default_time) ==
    IF partitioner = "Table" THEN line.measurement
    ELSE LET t == IF IsSome(line.timestamp) THEN Unwrap(line.timestamp)
                  ELSE default_time
         IN <<t \div BucketWidth>>

----------------------------------------------------------------------------
(* lines_to_replicated_write                                               *)

add_value(column, value_type, value) ==
    EncTable(<<Some(EncString(column)), Scalar(<<value_type>>, <<ColumnValue_NONE>>),
               Some(value)>>)

add_tag_value(column, value) ==
    add_value(column, TagValue, EncTable(<<Some(EncString(value))>>))

add_string_value(column, value) ==
    add_value(column, StringValue, EncTable(<<Some(EncString(value))>>))

add_f64_value(column, value) ==
    add_value(column, F64Value, EncTable(<<Scalar(value, Zero8)>>))

add_i64_value(column, value) ==
    add_value(column, I64Value, EncTable(<<Scalar(I64Bytes(value), Zero8)>>))

add_u64_value(column, value) ==
    add_value(column, U64Value, EncTable(<<Scalar(I64Bytes(value), Zero8)>>))

add_bool_value(column, value) ==
    add_value(column, BoolValue,
              EncTable(<<Scalar(<<IF value THEN 1 ELSE 0>>, <<0>>)>>))

\* the match on FieldValue in add_line
add_field_value(f) ==
    CASE f.type = "I64" -> add_i64_value(f.column, f.value)
      [] f.type = "U64" -> add_u64_value(f.column, f.value)
      [] f.type = "F64" -> add_f64_value(f.column, f.value)
      [] f.type = "Boolean" -> add_bool_value(f.column, f.value)
      [] f.type = "String" -> add_string_value(f.column, f.value)

\* the time value pushed before the tags and the fields
add_line_TimeFirst(line, now) ==
    LET tags == IF IsSome(line.tag_set) THEN Unwrap(line.tag_set) ELSE <<>>
        tag_values == [i \in 1..Len(tags) |->
                          add_tag_value(tags[i].column, tags[i].value)]
        field_values == [i \in 1..Len(line.field_set) |->
                            add_field_value(line.field_set[i])]
        time == IF IsSome(line.timestamp) THEN Unwrap(line.timestamp)
                ELSE Unwrap(now)
        row_values == <<add_i64_value(TIME_COLUMN_NAME, time)>>
                      \o tag_values \o field_values
    IN EncTable(<<Some(EncVector(row_values))>>)

\* now is Some(reading of Utc::now().timestamp_nanos()) when the line has no
\* timestamp: the reading is made while the line is added
add_line(line, now) ==
    LET tags == IF IsSome(line.tag_set) THEN Unwrap(line.tag_set) ELSE <<>>
        tag_values == [i \in 1..Len(tags) |->
                          add_tag_value(tags[i].column, tags[i].value)]
        field_values == [i \in 1..Len(line.field_set) |->
                            add_field_value(line.field_set[i])]
        time == IF IsSome(line.timestamp) THEN Unwrap(line.timestamp)
                ELSE Unwrap(now)
        row_values == tag_values \o field_values
                      \o <<add_i64_value(TIME_COLUMN_NAME, time)>>
    IN EncTable(<<Some(EncVector(row_values))>>)

\* the keys of a set of strings in ascending byte order
RECURSIVE SortStrings(_)
SortStrings(S) ==
    IF S = {} THEN <<>>
    ELSE LET m == CHOOSE x \in S : \A y \in S \ {x} : LexLess(x, y)
         IN <<m>> \o SortStrings(S \ {m})

\* BTreeMap<key, Vec<_>>: entry(key).or_insert_with(Vec::new).push(i) for
\* each i of idxs, then into_iter(); key_of[i] is the key of i
BTreeGroup(idxs, key_of) ==
    LET keys == SortStrings({key_of[idxs[k]] : k \in 1..Len(idxs)})
    IN [j \in 1..Len(keys) |->
           [key |-> keys[j],
            items |-> SelectSeq(idxs, LAMBDA i : key_of[i] = keys[j])]]

\* a batch that keeps the row of its last line only
add_table_batch_LastLineOnly(name, idxs, lines, nows) ==
    LET rows == <<add_line(lines[idxs[Len(idxs)]], nows[idxs[Len(idxs)]])>>
    IN EncTable(<<Some(EncString(name)), Some(EncVector(rows))>>)

\* the rows pushed to the front of the batch: last line first
add_table_batch_RowsReversed(name, idxs, lines, nows) ==
    LET rows == [k \in 1..Len(idxs) |->
                    add_line(lines[idxs[Len(idxs) + 1 - k]],
                             nows[idxs[Len(idxs) + 1 - k]])]
    IN EncTable(<<Some(EncString(name)), Some(EncVector(rows))>>)

\* lines are named by their index in the slice
add_table_batch(name, idxs, lines, nows) ==
    LET rows == [k \in 1..Len(idxs) |->
                    add_line(lines[idxs[k]], nows[idxs[k]])]
    IN EncTable(<<Some(EncString(name)), Some(EncVector(rows))>>)

\* line.series.measurement of each line
Measurements(lines) == [i \in 1..Len(lines) |-> lines[i].measurement]

add_write_entry(partition_key, idxs, lines, nows) ==
    LET groups == BTreeGroup(idxs, Measurements(lines))
        table_batches == [t \in 1..Len(groups) |->
                             add_table_batch(groups[t].key, groups[t].items,
                                             lines, nows)]
        batches_vec == EncVector(table_batches)
    IN IF IsSome(partition_key)
       THEN EncTable(<<Some(EncString(Unwrap(partition_key))), Some(batches_vec)>>)
       ELSE EncTable(<<None, Some(batches_vec)>>)

Indices(lines) == [i \in 1..Len(lines) |-> i]

\* the lines kept in a Vec of (key, line) instead of a BTreeMap: one entry
\* per line, in input order
split_lines_into_write_entry_partitions_EntryPerLine(partition_keys, lines, nows) ==
    LET entries == [i \in 1..Len(lines) |->
                       add_write_entry(Some(partition_keys[i]), <<i>>,
                                       lines, nows)]
    IN EncTable(<<Some(EncVector(entries))>>)

\* partition_keys[i] is partition_key_fn(lines[i])
split_lines_into_write_entry_partitions(partition_keys, lines, nows) ==
    LET partition_writes == BTreeGroup(Indices(lines), partition_keys)
        entries == [e \in 1..Len(partition_writes) |->
                       add_write_entry(Some(partition_writes[e].key),
                                       partition_writes[e].items,
                                       lines, nows)]
    IN EncTable(<<Some(EncVector(entries))>>)

\* the envelope with the checksum taken over the whole framed message
replicated_write_bytes_ChecksumWrongBytes(writer, sequence, entry_bytes) ==
    The({The({EncTable(<<Scalar(writer, Zero4), Scalar(sequence, Zero8),
                         Scalar(checksum, Zero4), Some(EncString(payload))>>) :
                  checksum \in {CRC32(writer \o sequence \o payload)}}) :
            payload \in {entry_bytes}})

\* Hasher over entry_bytes, wb::ReplicatedWrite::create, finish, collapse
replicated_write_bytes(writer, sequence, entry_bytes) ==
    The({The({EncTable(<<Scalar(writer, Zero4), Scalar(sequence, Zero8),
                         Scalar(checksum, Zero4), Some(EncString(payload))>>) :
                  checksum \in {CRC32(payload)}}) :
            payload \in {entry_bytes}})

\* |line| partitioner.partition_key(line, &default_time).unwrap(), per line
PartitionKeysOf(lines, partitioner, default_time) ==
    [i \in 1..Len(lines) |-> PartitionKey(partitioner, lines[i], default_time)]

\* default_time is the reading of Utc::now() at entry, nows[i] the reading
\* made in add_line for line i
lines_to_replicated_write(writer, sequence, lines, partitioner, default_time, nows) ==
    LET entry_bytes ==
            split_lines_into_write_entry_partitions(
                PartitionKeysOf(lines, partitioner, default_time), lines, nows)
    IN TryFrom(replicated_write_bytes(writer, sequence, entry_bytes))

\* the order in which add_line meets the lines: entries by key, tables by
\* name, rows in input order
ProcessingOrder(lines, partitioner, default_time) ==
    LET entries == BTreeGroup(Indices(lines),
                       PartitionKeysOf(lines, partitioner, default_time))
    IN Concat([e \in 1..Len(entries) |->
           LET tables == BTreeGroup(entries[e].items, Measurements(lines))
           IN Concat([t \in 1..Len(tables) |-> tables[t].items])])

NoTimestamp(lines) == {i \in 1..Len(lines) : ~IsSome(lines[i].timestamp)}

\* readings[1] is default_time; the k-th line without timestamp that
\* add_line meets gets readings[k + 1]
NowsOf(lines, partitioner, readings) ==
    LET order == ProcessingOrder(lines, partitioner, readings[1])
        pos(i) == CHOOSE k \in 1..Len(order) : order[k] = i
        rank(i) == Cardinality({j \in NoTimestamp(lines) : pos(j) <= pos(i)})
    IN [i \in 1..Len(lines) |->
           IF i \in NoTimestamp(lines) THEN Some(readings[rank(i) + 1]) ELSE None]

----------------------------------------------------------------------------
(* Callers of lines_to_replicated_write *)

\* u32::MAX, and 42 + 2^32 as a u64
w_max == <<255, 255, 255, 255>>
s_42_hi == <<42, 0, 0, 0, 1, 0, 0, 0>>

WriterIds == {Zero4, w_max}
SequenceNumbers == {Zero8, s_42_hi}

\* the wall clock when the first call is made
ClockStart == 199

----------------------------------------------------------------------------
(* Bytes given to ReplicatedWrite::try_from *)

\* wb::ReplicatedWrite::create(fbb, ReplicatedWriteArgs { writer, sequence,
\* checksum, payload }): payload is None or Some(bytes)
ReplicatedWriteCreate(writer, sequence, checksum, payload) ==
    EncTable(<<Scalar(writer, Zero4), Scalar(sequence, Zero8),
               Scalar(checksum, Zero4),
               IF IsSome(payload) THEN Some(EncString(Unwrap(payload))) ELSE None>>)

\* wb::WriteBufferBatch::create(fbb, WriteBufferBatchArgs { entries }):
\* entries is None or Some(vector of encoded entries)
WriteBufferBatchCreate(entries) ==
    EncTable(<<IF IsSome(entries) THEN Some(EncVector(Unwrap(entries))) ELSE None>>)

\* the bytes without their last byte
Truncated(bytes) == SubSeq(bytes, 1, Len(bytes) - 1)

\* the batch of the lines, every clock reading being ClockStart
BatchOfLines(lines, partitioner) ==
    split_lines_into_write_entry_partitions(
        PartitionKeysOf(lines, partitioner, ClockStart), lines,
        [i \in 1..Len(lines) |-> Some(ClockStart)])

\* payloads: none, a batch without entries vector, a batch with an empty
\* entries vector, batches of lines, a batch cut short, no bytes at all
Payloads ==
    {None, Some(WriteBufferBatchCreate(None)), Some(WriteBufferBatchCreate(Some(<<>>))),
     Some(<<>>)}
    \cup {Some(BatchOfLines(lines, p)) :
              lines \in SeqsUpTo(ParsedLines, MaxLines), p \in Partitioners}
    \cup {Some(Truncated(BatchOfLines(<<line>>, "Table"))) : line \in ParsedLines}

\* checksum fields: the CRC32 of the payload, 0 and u32::MAX
ChecksumsOf(payload) ==
    {IF IsSome(payload) THEN CRC32(Unwrap(payload)) ELSE Zero4, Zero4, w_max}

\* envelopes, and envelopes cut short
DecodeInputs ==
    LET envelopes == UNION {{ReplicatedWriteCreate(w, s, c, p) : c \in ChecksumsOf(p)} :
                               w \in WriterIds, s \in SequenceNumbers, p \in Payloads}
    IN envelopes
       \cup {Truncated(ReplicatedWriteCreate(w_max, s_42_hi, w_max, p)) : p \in Payloads}
       \cup {<<>>}

----------------------------------------------------------------------------
(* The test server fixture *)

Tasks == 1..MaxTasks

\* enum ServerState
ServerState == {"Started", "Ready", "Error"}

\* enum InitialConfig
InitialConfig == {"None", "Onboarded"}

\* tokio::time::timeout(Duration::from_secs(100), ..)
DeadlineSecs == 100
\* tokio::time::interval(Duration::from_secs(5))
IntervalSecs == 5

\* TestServer::new: the slot is Started, nobody holds its lock (holder 0),
\* there is no admin token
TestServerNew == [ready |-> "Started", holder |-> 0, admin_token |-> None]

\* a task that has not called wait_until_ready
NotWaiting ==
    [pc |-> "idle", initial_config |-> "None", found |-> "none", polls |-> 0,
     fault |-> "none"]

\* the places of wait_until_ready at which the task holds the guard `ready`
HoldsGuard == {"match", "poll", "onboard"}

----------------------------------------------------------------------------
(* The immutable chunk of the parquet crate *)

\* TimestampRange { start, end }: the timestamps t with start <= t < end
TimestampRanges ==
    {r \in [start : 0..MaxTime, end : 0..MaxTime] : r.start < r.end}

\* TimestampRange::disjoint
Disjoint(a, b) == a.end <= b.start \/ a.start >= b.end

\* Selection::All, Selection::Some(columns)
SelectAll == [all |-> TRUE, cols |-> <<>>]
SelectSome(cols) == [all |-> FALSE, cols |-> cols]

\* Table::new(table_summary, file_location, schema, range)
TableNew(table_summary, file_location, schema, range) ==
    [table_summary |-> table_summary, object_store_path |-> file_location,
     table_schema |-> schema, timestamp_range |-> range]

\* Table::has_table, Table::name, Table::table_summary
TableHasTable(t, table_name) == t.table_summary.name = table_name
TableNameOf(t) == t.table_summary.name
TableSummaryOf(t) == t.table_summary

\* Table::matches_predicate: without filter every table matches; with a
\* filter a table matches when it has a range that is not disjoint from it
MatchesPredicate(t, timestamp_range) ==
    IF ~IsSome(timestamp_range) THEN TRUE
    ELSE IF ~IsSome(t.timestamp_range) THEN FALSE
    ELSE ~Disjoint(Unwrap(t.timestamp_range), Unwrap(timestamp_range))

\* sum of the lengths of the strings of a sequence
RECURSIVE SumOfLengths(_)
SumOfLengths(strs) ==
    IF strs = <<>> THEN 0 ELSE Len(Head(strs)) + SumOfLengths(Tail(strs))

\* mem::size_of::<Table>(), mem::size_of::<Chunk>(), mem::size_of::<u32>()
SizeOfTable == 96
SizeOfChunk == 64
SizeOfU32 == 4

\* Table::size: the struct, the summary and the path
TableSizeOf(t) ==
    SizeOfTable + Len(t.table_summary.name)
    + SumOfLengths(t.table_summary.columns) + Len(t.object_store_path)

\* Table::schema(selection): the selected columns of the schema, an error
\* when a selected column is not in the schema
TableSchemaOf(t, selection) ==
    IF selection.all THEN [ok |-> TRUE, schema |-> t.table_schema]
    ELSE IF \E k \in 1..Len(selection.cols) :
               \A j \in 1..Len(t.table_schema) : t.table_schema[j] # selection.cols[k]
         THEN [ok |-> FALSE, schema |-> <<>>]
         ELSE [ok |-> TRUE, schema |-> selection.cols]

\* Table::column_names(selection): the names of the schema that the
\* selection has
TableColumnNames(t, selection) ==
    Some({t.table_schema[j] : j \in {i \in 1..Len(t.table_schema) :
              selection.all \/ \E k \in 1..Len(selection.cols) :
                                  selection.cols[k] = t.table_schema[i]}})

\* MemTracker::set_bytes; sets counts the calls
SetBytes(memory_tracker, n) == [bytes |-> n, sets |-> memory_tracker.sets + 1]

\* self.tables.iter().map(|t| t.size()).sum()
RECURSIVE SumOfTableSizes(_)
SumOfTableSizes(tables) ==
    IF tables = <<>> THEN 0
    ELSE TableSizeOf(Head(tables)) + SumOfTableSizes(Tail(tables))

\* Chunk::size
ChunkSize(chunk) ==
    LET size == SumOfTableSizes(chunk.tables)
    IN size + Len(chunk.partition_key) + SizeOfU32 + SizeOfChunk

\* Chunk::new: memory_registry.register() gives a tracker of 0 bytes
ChunkNew(part_key, chunk_id) ==
    LET chunk == [partition_key |-> part_key, id |-> chunk_id, tables |-> <<>>,
                  memory_tracker |-> [bytes |-> 0, sets |-> 0]]
    IN [chunk EXCEPT !.memory_tracker = SetBytes(@, ChunkSize(chunk))]

\* add_table that reports the new size to the tracker
add_table_TracksSize(chunk, table_summary, file_location, schema, range) ==
    LET added == [chunk EXCEPT !.tables =
                     Append(@, TableNew(table_summary, file_location, schema, range))]
    IN [added EXCEPT !.memory_tracker = SetBytes(@, ChunkSize(added))]

\* Chunk::add_table
add_table(chunk, table_summary, file_location, schema, range) ==
    [chunk EXCEPT !.tables =
        Append(@, TableNew(table_summary, file_location, schema, range))]

\* Chunk::table_summaries
table_summaries(chunk) ==
    [i \in 1..Len(chunk.tables) |-> TableSummaryOf(chunk.tables[i])]

\* Chunk::has_table
has_table(chunk, table_name) ==
    \E i \in 1..Len(chunk.tables) : TableHasTable(chunk.tables[i], table_name)

\* self.tables.iter().find(|t| t.has_table(table_name))
FindTable(chunk, table_name) ==
    LET found == SelectSeq(chunk.tables, LAMBDA t : TableHasTable(t, table_name))
    IN IF found = <<>> THEN None ELSE Some(Head(found))

\* the error NamedTableNotFoundInChunk { table_name, chunk_id: self.id() }
NamedTableNotFoundInChunk(chunk, table_name) ==
    [ok |-> FALSE, error |-> "NamedTableNotFoundInChunk",
     table_name |-> table_name, chunk_id |-> chunk.id]

\* table_names that yields every table whatever the filter
table_names_NoFilter(chunk, timestamp_range) ==
    [i \in 1..Len(chunk.tables) |-> TableNameOf(chunk.tables[i])]

\* Chunk::table_names
table_names(chunk, timestamp_range) ==
    LET matching == SelectSeq(chunk.tables,
                              LAMBDA t : MatchesPredicate(t, timestamp_range))
    IN [i \in 1..Len(matching) |-> TableNameOf(matching[i])]

\* Chunk::table_schema
table_schema(chunk, table_name, selection) ==
    LET table == FindTable(chunk, table_name)
    IN IF ~IsSome(table) THEN NamedTableNotFoundInChunk(chunk, table_name)
       ELSE LET r == TableSchemaOf(Unwrap(table), selection)
            IN IF r.ok THEN [ok |-> TRUE, schema |-> r.schema]
               ELSE [ok |-> FALSE, error |-> "NamedTableError",
                     table_name |-> table_name]

\* column_names that gives the empty set for a table the chunk has not
column_names_EmptyWhenAbsent(chunk, table_name, selection) ==
    LET table == FindTable(chunk, table_name)
    IN IF ~IsSome(table) THEN Some({})
       ELSE TableColumnNames(Unwrap(table), selection)

\* Chunk::column_names
column_names(chunk, table_name, selection) ==
    LET table == FindTable(chunk, table_name)
    IN IF ~IsSome(table) THEN None
       ELSE TableColumnNames(Unwrap(table), selection)

\* Chunk::read_filter; io_ok: the read of the parquet file succeeds
read_filter(chunk, table_name, selection, io_ok) ==
    LET table == FindTable(chunk, table_name)
    IN IF ~IsSome(table) THEN NamedTableNotFoundInChunk(chunk, table_name)
       ELSE IF io_ok
            THEN [ok |-> TRUE, stream |-> Unwrap(table).object_store_path]
            ELSE [ok |-> FALSE, error |-> "ReadParquet",
                  table_name |-> table_name, chunk_id |-> chunk.id]

----------------------------------------------------------------------------
(* The shared test server: ServerFixture::create_shared and                *)
(* create_single_use.  A TestServer is its place in `servers`; strong is   *)
(* the number of owners of the value: the local variable that holds it     *)
(* until Arc::new, and every Arc<TestServer> afterwards.                   *)

Callers == 1..MaxCallers

\* AtomicUsize::new(8190)
FirstPort == 8190

\* Weak::new(): a weak reference that never upgrades
WeakNew == 0

\* a caller that is in neither create function
NotCalling == [pc |-> "idle", kind |-> "none", server |-> 0, found |-> {}, reused |-> FALSE]

\* mutant: the counter is read and not advanced
FetchAdd_LoadOnly(counter) == [value |-> counter, counter |-> counter]

\* NEXT_PORT.fetch_add(1, SeqCst): one atomic step that returns the value
\* before the addition
FetchAdd(counter) == [value |-> counter, counter |-> counter + 1]

\* mutant: the weak reference never upgrades
Upgrade_AlwaysNone(weak, srvs) == None

\* shared_server.upgrade(): Some(server) while the server has an owner
Upgrade(weak, srvs) ==
    IF weak # WeakNew /\ srvs[weak].strong > 0 THEN Some(weak) ELSE None

\* TestServer::new: the next port, the server process spawned
TestServerSpawn(port, shared) ==
    [http_port |-> port, strong |-> 1, running |-> TRUE, shared |-> shared]

\* the shared servers that have an owner
LiveShared(srvs) == {i \in DOMAIN srvs : srvs[i].shared /\ srvs[i].strong > 0}

----------------------------------------------------------------------------
(* Initial state *)

Init ==
    /\ col = None
    /\ dict = EmptyDictionary
    /\ colLast = [op |-> "none"]
    /\ tcols = <<>>
    /\ tcol = <<>>
    /\ tdict = EmptyDictionary
    /\ tlast = [n |-> 0, err |-> FALSE]
    /\ parts = [p \in PartitionKeys |-> None]
    /\ seen = <<>>
    /\ rolled = [p \in PartitionKeys |-> <<>>]
    /\ dlast = [op |-> "none", writes |-> 0, calls |-> 0]
    /\ clock = ClockStart
    /\ enc = [op |-> "none"]
    /\ dec = [op |-> "none"]
    /\ server = TestServerNew
    /\ waiters = [t \in Tasks |-> NotWaiting]
    /\ pchunk = None
    /\ pqLast = [op |-> "none"]
    /\ NEXT_PORT = FirstPort
    /\ SHARED_SERVER = [holder |-> 0, weak |-> WeakNew]
    /\ servers = <<>>
    /\ callers = [c \in Callers |-> NotCalling]

----------------------------------------------------------------------------
(* Column operations on one column *)

ColNew(row_count, logical_type, values) ==
    /\ col = None
    /\ row_count + Len(values.vals) <= MaxLen
    /\ LET r == NewFromTypedValues(dict, row_count, logical_type, values)
       IN /\ col' = IF r.panic THEN None ELSE Some(r.col)
          /\ dict' = r.dict
          /\ colLast' = [op |-> "new", before |-> col, dict_before |-> dict,
                         row_count |-> row_count, logical_type |-> logical_type,
                         values |-> values, failed |-> r.panic,
                         panic |-> r.panic]
    /\ UNCHANGED <<tblVars, dbVars, encVars, decVars, fixVars, pqVars, shVars>>

ColPush(logical_type, values) ==
    /\ IsSome(col)
    /\ ColumnLen(Unwrap(col)) + Len(values.vals) <= MaxLen
    /\ LET r == PushTypedValues(Unwrap(col), dict, logical_type, values)
       IN /\ col' = Some(r.col)
          /\ dict' = r.dict
          /\ colLast' = [op |-> "push", before |-> col, dict_before |-> dict,
                         logical_type |-> logical_type,
                         values |-> values, failed |-> r.err]
    /\ UNCHANGED <<tblVars, dbVars, encVars, decVars, fixVars, pqVars, shVars>>

ColPushNulls(len) ==
    /\ IsSome(col)
    /\ col' = Some(PushNullsToLen(Unwrap(col), len))
    /\ colLast' = [op |-> "nulls", before |-> col, dict_before |-> dict,
                   len |-> len, failed |-> FALSE]
    /\ UNCHANGED <<dict, tblVars, dbVars, encVars, decVars, fixVars, pqVars, shVars>>

\* the logical types a caller pairs with values of one kind: a string is a
\* tag or a field (or, wrongly, the time), an i64 a field or the time, any
\* other value a field
LogicalTypesOf(values) ==
    CASE values.kind = "String" -> LogicalColumnType
      [] values.kind = "I64" -> {"Field", "Time"}
      [] OTHER -> {"Field"}

Next ==
    \/ \E rc \in 0..MaxPad, vs \in TypedValues :
          \E lt \in LogicalTypesOf(vs) : ColNew(rc, lt, vs)
    \/ \E vs \in TypedValues : \E lt \in LogicalTypesOf(vs) : ColPush(lt, vs)
    \/ \E len \in 0..MaxLen : ColPushNulls(len)

Spec == Init /\ [][Next]_vars

----------------------------------------------------------------------------
(* Rows appended to one table batch *)

TblAppendRow(row) ==
    /\ tlast.n < MaxRows
    /\ LET r == AppendRow(tcols, tcol, tdict, row)
       IN /\ tcols' = r.names
          /\ tcol' = r.cols
          /\ tdict' = r.dict
          /\ tlast' = [n |-> tlast.n + 1, err |-> r.err, row |-> row,
                       names_before |-> tcols, cols_before |-> tcol,
                       dict_before |-> tdict]
    /\ UNCHANGED <<colVars, dbVars, encVars, decVars, fixVars, pqVars, shVars>>

TableNext == \E row \in Rows : TblAppendRow(row)

TableSpec == Init /\ [][TableNext]_vars

----------------------------------------------------------------------------
(* Database calls *)

Max2(a, b) == IF a > b THEN a ELSE b

\* the lifecycle rank of every chunk of ps, joined to what was seen before
Observe(old, ps) ==
    LET now == {<<k, id>> : k \in {x \in PartitionKeys : IsSome(ps[x])},
                            id \in 0..(MaxRollovers + 2)}
        here == {c \in now : c[2] \in DOMAIN Unwrap(ps[c[1]]).chunks}
    IN [c \in DOMAIN old \cup here |->
           IF c \in here
           THEN LET r == LifecycleRank(Unwrap(ps[c[1]]).chunks[c[2]].state)
                IN IF c \in DOMAIN old THEN Max2(old[c], r) ELSE r
           ELSE old[c]]

\* the bookkeeping every database call shares
DbStep(op, key, id, ok, ps, writes) ==
    /\ dlast.calls < MaxCalls
    /\ parts' = ps
    /\ seen' = Observe(seen, ps)
    /\ dlast' = [op |-> op, key |-> key, id |-> id, ok |-> ok, before |-> parts,
                 writes |-> writes, calls |-> dlast.calls + 1]
    /\ UNCHANGED <<colVars, tblVars, encVars, decVars, fixVars, pqVars, shVars>>

\* db.mutable_buffer_chunks(partition_key): listing creates the partition
DbListChunks(key) ==
    /\ DbStep("list", key, 0, TRUE,
              [parts EXCEPT ![key] = Some(GetPartition(parts, key))], dlast.writes)
    /\ UNCHANGED rolled

\* writer.write_lp_string(&db, data): the rows go to the open chunk
DbWrite(key) ==
    /\ dlast.writes < MaxWrites
    /\ LET part == GetPartition(parts, key)
           open == OpenChunkId(part)
           row == dlast.writes + 1
       IN DbStep("write", key, open, TRUE,
                 [parts EXCEPT ![key] =
                     Some([part EXCEPT !.chunks[open].rows = Append(@, row)])],
                 row)
    /\ UNCHANGED rolled

\* a write addressed to one chunk of the mutable buffer
DbWriteChunk(key, id) ==
    /\ dlast.writes < MaxWrites
    /\ IsSome(parts[key])
    /\ id \in MutableBufferChunks(Unwrap(parts[key]))
    /\ LET part == Unwrap(parts[key])
           row == dlast.writes + 1
       IN IF ChunkAcceptsWrite(part.chunks[id])
          THEN DbStep("write_chunk", key, id, TRUE,
                      [parts EXCEPT ![key] =
                          Some([part EXCEPT !.chunks[id].rows = Append(@, row)])],
                      row)
          ELSE DbStep("write_chunk", key, id, FALSE, parts, dlast.writes)
    /\ UNCHANGED rolled

RECURSIVE SumLen(_, _)
SumLen(f, S) ==
    IF S = {} THEN 0
    ELSE LET x == CHOOSE y \in S : TRUE IN Len(f[x]) + SumLen(f, S \ {x})

\* the rollovers so far
Rollovers == SumLen(rolled, PartitionKeys)

\* db.rollover_partition(partition_key): returns the chunk it closed
DbRollover(key) ==
    /\ Rollovers < MaxRollovers
    /\ LET part == GetPartition(parts, key)
       IN /\ DbStep("rollover", key, OpenChunkId(part), TRUE,
                    [parts EXCEPT ![key] = Some(Rollover(part))], dlast.writes)
          /\ rolled' = [rolled EXCEPT ![key] = Append(@, OpenChunkId(part))]

\* db.load_chunk_to_read_buffer(partition_key, chunk_id)
DbLoad(key, id) ==
    /\ id \in DOMAIN GetPartition(parts, key).chunks
    /\ LET part == GetPartition(parts, key)
       IN IF id \in MutableBufferChunks(part) /\ ChunkCanFreeze(part.chunks[id])
          THEN DbStep("load", key, id, TRUE,
                      [parts EXCEPT ![key] = Some(LoadToReadBuffer(part, id))],
                      dlast.writes)
          ELSE DbStep("load", key, id, FALSE,
                      [parts EXCEPT ![key] = Some(part)], dlast.writes)
    /\ UNCHANGED rolled

\* db.drop_mutable_buffer_chunk(partition_key, chunk_id)
DbDrop(key, id) ==
    /\ id \in DOMAIN GetPartition(parts, key).chunks
    /\ LET part == GetPartition(parts, key)
       IN IF id \in MutableBufferChunks(part) /\ part.chunks[id].state # "OpenMutable"
          THEN DbStep("drop", key, id, TRUE,
                      [parts EXCEPT ![key] = Some(DropMutable(part, id))], dlast.writes)
          ELSE DbStep("drop", key, id, FALSE,
                      [parts EXCEPT ![key] = Some(part)], dlast.writes)
    /\ UNCHANGED rolled

\* a chunk of the read buffer is written to a file: Immutable -> Persisted
DbPersist(key, id) ==
    /\ IsSome(parts[key])
    /\ id \in ReadBufferChunks(Unwrap(parts[key]))
    /\ Unwrap(parts[key]).chunks[id].state = "Immutable"
    /\ DbStep("persist", key, id, TRUE,
              [parts EXCEPT ![key] =
                  Some([Unwrap(parts[key]) EXCEPT !.chunks[id].state = "Persisted"])],
              dlast.writes)
    /\ UNCHANGED rolled

ChunkIds == 0..MaxRollovers

DbNext ==
    \/ \E key \in PartitionKeys : DbListChunks(key)
    \/ \E key \in PartitionKeys : DbWrite(key)
    \/ \E key \in PartitionKeys, id \in ChunkIds : DbWriteChunk(key, id)
    \/ \E key \in PartitionKeys : DbRollover(key)
    \/ \E key \in PartitionKeys, id \in ChunkIds : DbLoad(key, id)
    \/ \E key \in PartitionKeys, id \in ChunkIds : DbDrop(key, id)
    \/ \E key \in PartitionKeys, id \in ChunkIds : DbPersist(key, id)

DbSpec == Init /\ [][DbNext]_vars

----------------------------------------------------------------------------
(* Calls of lines_to_replicated_write.  Every Utc::now() of a call reads   *)
(* the wall clock, which may have advanced since the reading before it.    *)

\* ticks[k]: the clock advanced before the k-th reading of the call
Readings(ticks) ==
    [k \in 1..Len(ticks) |-> clock + Cardinality({j \in 1..k : ticks[j]})]

TicksOf(lines) == [1..(1 + Cardinality(NoTimestamp(lines))) -> BOOLEAN]

WriteLines(op, writer, sequence, lines, partitioner, ticks) ==
    LET readings == Readings(ticks)
    IN /\ clock' = readings[Len(ticks)]
       /\ enc' = The({The({[op |-> op, writer |-> writer, sequence |-> sequence,
                             lines |-> lines, partitioner |-> partitioner,
                             default_time |-> readings[1], nows |-> nows,
                             panic |-> ~rw.ok, data |-> rw.data,
                             prev_data |-> IF op = "again" THEN enc.data ELSE <<>>] :
                            rw \in {lines_to_replicated_write(writer, sequence,
                                        lines, partitioner, readings[1], nows)}}) :
                       nows \in {NowsOf(lines, partitioner, readings)}})
       /\ UNCHANGED <<colVars, tblVars, dbVars, decVars, fixVars, pqVars, shVars>>

\* the first call
Encode(writer, sequence, lines, partitioner, ticks) ==
    /\ enc.op = "none"
    /\ WriteLines("first", writer, sequence, lines, partitioner, ticks)

\* a second call with the arguments of the first
EncodeAgain(ticks) ==
    /\ enc.op = "first"
    /\ ticks \in TicksOf(enc.lines)
    /\ WriteLines("again", enc.writer, enc.sequence, enc.lines,
                  enc.partitioner, ticks)

WriteNext ==
    \/ \E writer \in WriterIds, sequence \in SequenceNumbers,
          lines \in SeqsUpTo(ParsedLines, MaxLines),
          partitioner \in Partitioners :
          \E ticks \in TicksOf(lines) :
              Encode(writer, sequence, lines, partitioner, ticks)
    \/ \E n \in 1..(MaxLines + 1) : \E ticks \in [1..n -> BOOLEAN] :
          EncodeAgain(ticks)

WriteSpec == Init /\ [][WriteNext]_vars

----------------------------------------------------------------------------
(* Bytes decoded *)

\* ReplicatedWrite::try_from(data), once
Decode(data) ==
    /\ dec.op = "none"
    /\ dec' = The({[op |-> "decode", data |-> data, ok |-> rw.ok, rw |-> rw] :
                      rw \in {TryFrom(data)}})
    /\ UNCHANGED <<colVars, tblVars, dbVars, encVars, fixVars, pqVars, shVars>>

DecodeNext == \E data \in DecodeInputs : Decode(data)

DecodeSpec == Init /\ [][DecodeNext]_vars

----------------------------------------------------------------------------
(* Tasks in TestServer::wait_until_ready *)

\* the task leaves wait_until_ready, by return or by panic: the guard
\* `ready` is dropped with it
Leave(t, pc, fault, ready, admin_token) ==
    /\ waiters' = [waiters EXCEPT ![t].pc = pc, ![t].fault = fault]
    /\ server' = [ready |-> ready, holder |-> 0, admin_token |-> admin_token]

\* server.wait_until_ready(initial_config) is called
Call(t, initial_config) ==
    /\ waiters[t].pc = "idle"
    /\ waiters' = [waiters EXCEPT ![t].pc = "lock",
                                  ![t].initial_config = initial_config]
    /\ UNCHANGED server

\* the lock is taken although another task may hold it
Lock_NoWait(t) ==
    /\ waiters[t].pc = "lock"
    /\ server' = [server EXCEPT !.holder = t]
    /\ waiters' = [waiters EXCEPT ![t].pc = "match"]

\* let mut ready = self.ready.lock().await
Lock(t) ==
    /\ waiters[t].pc = "lock"
    /\ server.holder = 0
    /\ server' = [server EXCEPT !.holder = t]
    /\ waiters' = [waiters EXCEPT ![t].pc = "match"]

\* the startup is begun whatever the slot holds
Match_AlwaysStarts(t) ==
    /\ waiters[t].pc = "match"
    /\ waiters' = [waiters EXCEPT ![t].found = server.ready, ![t].pc = "poll"]
    /\ UNCHANGED server

\* match *ready { Started => {}, Ready => return, Error => panic!(..) }
Match(t) ==
    /\ waiters[t].pc = "match"
    /\ CASE server.ready = "Started" ->
              /\ waiters' = [waiters EXCEPT ![t].found = "Started",
                                            ![t].pc = "poll"]
              /\ UNCHANGED server
         [] server.ready = "Ready" ->
              /\ waiters' = [waiters EXCEPT ![t].found = "Ready",
                                            ![t].pc = "returned"]
              /\ server' = [server EXCEPT !.holder = 0]
         [] server.ready = "Error" ->
              /\ waiters' = [waiters EXCEPT ![t].found = "Error",
                                            ![t].pc = "panicked",
                                            ![t].fault = "previous_error"]
              /\ server' = [server EXCEPT !.holder = 0]

\* client.get(&url).send() fails and interval.tick() completes before the
\* deadline: the first tick at once, every later one IntervalSecs after
\* the tick before it
HealthErr(t) ==
    /\ waiters[t].pc = "poll"
    /\ IntervalSecs * waiters[t].polls < DeadlineSecs
    /\ waiters' = [waiters EXCEPT ![t].polls = @ + 1]
    /\ UNCHANGED server

\* client.get(&url).send() answers before the deadline: *ready = Ready;
\* the task returns unless it is to onboard
HealthOk(t) ==
    /\ waiters[t].pc = "poll"
    /\ IF waiters[t].initial_config = "Onboarded"
       THEN /\ waiters' = [waiters EXCEPT ![t].pc = "onboard"]
            /\ server' = [server EXCEPT !.ready = "Ready"]
       ELSE Leave(t, "returned", "none", "Ready", server.admin_token)

\* the deadline passes and the slot is left as it was
Timeout_SlotUnchanged(t) ==
    /\ waiters[t].pc = "poll"
    /\ Leave(t, "panicked", "timeout", server.ready, server.admin_token)

\* capped_check.await is Err: the deadline has passed, during a request or
\* during a tick: *ready = Error, drop(ready), panic!
Timeout(t) ==
    /\ waiters[t].pc = "poll"
    /\ Leave(t, "panicked", "timeout", "Error", server.admin_token)

\* onboarding answers Ok with a token: self.admin_token = Some(token)
OnboardOk(t) ==
    /\ waiters[t].pc = "onboard"
    /\ Leave(t, "returned", "none", server.ready, Some("token"))

\* onboarding answers Ok without auth or without token: .expect(..) panics
OnboardNoToken(t) ==
    /\ waiters[t].pc = "onboard"
    /\ Leave(t, "panicked", "no_token", server.ready, server.admin_token)

\* onboarding answers Err: *ready = Error, drop(ready), panic!
OnboardErr(t) ==
    /\ waiters[t].pc = "onboard"
    /\ Leave(t, "panicked", "onboard", "Error", server.admin_token)

FixtureStep(t) ==
    \/ Lock(t)
    \/ Match(t)
    \/ HealthErr(t)
    \/ HealthOk(t)
    \/ Timeout(t)
    \/ OnboardOk(t)
    \/ OnboardNoToken(t)
    \/ OnboardErr(t)

FixtureNext ==
    /\ \E t \in Tasks :
           \/ \E initial_config \in InitialConfig : Call(t, initial_config)
           \/ FixtureStep(t)
    /\ UNCHANGED <<colVars, tblVars, dbVars, encVars, decVars, pqVars, shVars>>

FixtureSpec == Init /\ [][FixtureNext]_vars

\* a task that waits for the lock gets it when it stays free; the deadline
\* ends the polling; the onboarding request is answered
FairFixtureSpec ==
    /\ FixtureSpec
    /\ \A t \in Tasks :
           /\ WF_vars(Lock(t) /\ UNCHANGED <<colVars, tblVars, dbVars, encVars, decVars, pqVars, shVars>>)
           /\ WF_vars(Match(t) /\ UNCHANGED <<colVars, tblVars, dbVars, encVars, decVars, pqVars, shVars>>)
           /\ WF_vars((HealthOk(t) \/ Timeout(t))
                      /\ UNCHANGED <<colVars, tblVars, dbVars, encVars, decVars, pqVars, shVars>>)
           /\ WF_vars((OnboardOk(t) \/ OnboardNoToken(t) \/ OnboardErr(t))
                      /\ UNCHANGED <<colVars, tblVars, dbVars, encVars, decVars, pqVars, shVars>>)


----------------------------------------------------------------------------
(* Calls on one immutable chunk *)

\* the columns of the schema of a measurement
SchemaOf(name) ==
    IF name = m_cpu THEN <<k_region, k_user, TIME_COLUMN_NAME>>
    ELSE <<k_bytes, TIME_COLUMN_NAME>>

\* the ranges of the tables that are added: none, [1, 2) and [2, MaxTime)
TableRanges ==
    {None, Some([start |-> 1, end |-> 2]), Some([start |-> 2, end |-> MaxTime])}

\* the names asked for: two measurements and a name no table has
m_mem == <<4>>
AskedNames == {m_cpu, m_disk, m_mem}

Selections == {SelectAll, SelectSome(<<k_region>>), SelectSome(<<TIME_COLUMN_NAME>>)}

PqDone(op, input, result) ==
    /\ pqLast' = [op |-> op, input |-> input, result |-> result, before |-> pchunk]
    /\ UNCHANGED <<colVars, tblVars, dbVars, encVars, decVars, fixVars, shVars>>

\* Chunk::new(part_key, chunk_id, memory_registry)
PqNew(part_key, chunk_id) ==
    /\ pchunk = None
    /\ pchunk' = Some(ChunkNew(part_key, chunk_id))
    /\ PqDone("new", <<part_key, chunk_id>>, <<>>)

\* chunk.add_table(table_summary, file_location, schema, range)
PqAddTable(name, range) ==
    /\ IsSome(pchunk)
    /\ Len(Unwrap(pchunk).tables) < MaxTables
    /\ pchunk' = Some(add_table(Unwrap(pchunk),
                                [name |-> name, columns |-> SchemaOf(name)],
                                name, SchemaOf(name), range))
    /\ PqDone("add_table", <<name, range>>, <<>>)

\* chunk.table_summaries()
PqTableSummaries ==
    /\ IsSome(pchunk)
    /\ UNCHANGED pchunk
    /\ PqDone("table_summaries", <<>>, table_summaries(Unwrap(pchunk)))

\* chunk.table_names(timestamp_range)
PqTableNames(timestamp_range) ==
    /\ IsSome(pchunk)
    /\ UNCHANGED pchunk
    /\ PqDone("table_names", <<timestamp_range>>,
              table_names(Unwrap(pchunk), timestamp_range))

\* chunk.table_schema(table_name, selection)
PqTableSchema(table_name, selection) ==
    /\ IsSome(pchunk)
    /\ UNCHANGED pchunk
    /\ PqDone("table_schema", <<table_name, selection>>,
              table_schema(Unwrap(pchunk), table_name, selection))

\* chunk.column_names(table_name, selection)
PqColumnNames(table_name, selection) ==
    /\ IsSome(pchunk)
    /\ UNCHANGED pchunk
    /\ PqDone("column_names", <<table_name, selection>>,
              column_names(Unwrap(pchunk), table_name, selection))

\* chunk.read_filter(table_name, predicate, selection)
PqReadFilter(table_name, selection, io_ok) ==
    /\ IsSome(pchunk)
    /\ UNCHANGED pchunk
    /\ PqDone("read_filter", <<table_name, selection>>,
              read_filter(Unwrap(pchunk), table_name, selection, io_ok))

PqNext ==
    \/ \E part_key \in PartitionKeys, chunk_id \in {0, 7} : PqNew(part_key, chunk_id)
    \/ \E name \in {m_cpu, m_disk}, range \in TableRanges : PqAddTable(name, range)
    \/ PqTableSummaries
    \/ \E range \in {None} \cup {Some(r) : r \in TimestampRanges} : PqTableNames(range)
    \/ \E name \in AskedNames, selection \in Selections : PqTableSchema(name, selection)
    \/ \E name \in AskedNames, selection \in Selections : PqColumnNames(name, selection)
    \/ \E name \in AskedNames, selection \in Selections, io_ok \in BOOLEAN :
          PqReadFilter(name, selection, io_ok)

PqSpec == Init /\ [][PqNext]_vars

----------------------------------------------------------------------------
(* Callers of ServerFixture::create_shared and create_single_use, and the  *)
(* drop of the fixtures they get                                           *)

\* ServerFixture::create_shared() is called
CreateShared(c) ==
    /\ callers[c].pc \in {"idle", "done", "panicked"}
    /\ callers' = [callers EXCEPT ![c] = [NotCalling EXCEPT !.pc = "lock", !.kind = "shared"]]
    /\ UNCHANGED <<NEXT_PORT, SHARED_SERVER, servers>>

\* ServerFixture::create_single_use() is called
CreateSingleUse(c) ==
    /\ callers[c].pc \in {"idle", "done", "panicked"}
    /\ callers' = [callers EXCEPT ![c] = [NotCalling EXCEPT !.pc = "new", !.kind = "single"]]
    /\ UNCHANGED <<NEXT_PORT, SHARED_SERVER, servers>>

\* let mut shared_server = shared_server.lock()
SharedLock(c) ==
    /\ callers[c].pc = "lock"
    /\ SHARED_SERVER.holder = 0
    /\ SHARED_SERVER' = [SHARED_SERVER EXCEPT !.holder = c]
    /\ callers' = [callers EXCEPT ![c].pc = "upgrade"]
    /\ UNCHANGED <<NEXT_PORT, servers>>

\* match shared_server.upgrade() { Some(server) => server, None => .. }
SharedUpgrade(c) ==
    /\ callers[c].pc = "upgrade"
    /\ LET u == Upgrade(SHARED_SERVER.weak, servers)
       IN IF IsSome(u)
          THEN /\ servers' = [servers EXCEPT ![Unwrap(u)].strong = @ + 1]
               /\ callers' = [callers EXCEPT ![c].pc = "unlock",
                                             ![c].server = Unwrap(u),
                                             ![c].found = LiveShared(servers),
                                             ![c].reused = TRUE]
          ELSE /\ servers' = servers
               /\ callers' = [callers EXCEPT ![c].pc = "new",
                                             ![c].found = LiveShared(servers)]
    /\ UNCHANGED <<NEXT_PORT, SHARED_SERVER>>

\* TestServer::new(): the port is taken from NEXT_PORT and influxd spawned
TestServerNewCall(c) ==
    /\ callers[c].pc = "new"
    /\ Len(servers) < MaxServers
    /\ LET f == FetchAdd(NEXT_PORT)
       IN /\ NEXT_PORT' = f.counter
          /\ servers' = Append(servers,
                               TestServerSpawn(f.value, callers[c].kind = "shared"))
    /\ callers' = [callers EXCEPT ![c].pc = "wait", ![c].server = Len(servers) + 1]
    /\ UNCHANGED SHARED_SERVER

\* server.wait_until_ready(..).await returns, and Arc::new(server) takes the
\* value over from the local variable
WaitReturns(c) ==
    /\ callers[c].pc = "wait"
    /\ callers' = [callers EXCEPT
                      ![c].pc = IF callers[c].kind = "shared" THEN "store" ELSE "holding"]
    /\ UNCHANGED <<NEXT_PORT, SHARED_SERVER, servers>>

\* server.wait_until_ready(..).await panics: unwinding drops the server,
\* which kills its process, and then the guard of SHARED_SERVER
WaitPanics(c) ==
    /\ callers[c].pc = "wait"
    /\ servers' = [servers EXCEPT ![callers[c].server].strong = 0,
                                  ![callers[c].server].running = FALSE]
    /\ SHARED_SERVER' = IF callers[c].kind = "shared"
                        THEN [SHARED_SERVER EXCEPT !.holder = 0]
                        ELSE SHARED_SERVER
    /\ callers' = [callers EXCEPT ![c].pc = "panicked", ![c].server = 0]
    /\ UNCHANGED NEXT_PORT

\* *shared_server = Arc::downgrade(&server)
SharedStore(c) ==
    /\ callers[c].pc = "store"
    /\ SHARED_SERVER' = [SHARED_SERVER EXCEPT !.weak = callers[c].server]
    /\ callers' = [callers EXCEPT ![c].pc = "unlock"]
    /\ UNCHANGED <<NEXT_PORT, servers>>

\* std::mem::drop(shared_server); Self { server }
SharedUnlock(c) ==
    /\ callers[c].pc = "unlock"
    /\ SHARED_SERVER' = [SHARED_SERVER EXCEPT !.holder = 0]
    /\ callers' = [callers EXCEPT ![c].pc = "holding"]
    /\ UNCHANGED <<NEXT_PORT, servers>>

\* the ServerFixture goes out of scope: Arc::drop takes one from the strong
\* count, and the caller that took the last one runs the destructor
DropFixture(c) ==
    /\ callers[c].pc = "holding"
    /\ servers' = [servers EXCEPT ![callers[c].server].strong = @ - 1]
    /\ callers' = [callers EXCEPT
                      ![c].pc = IF servers[callers[c].server].strong = 1
                                THEN "dropping" ELSE "done"]
    /\ UNCHANGED <<NEXT_PORT, SHARED_SERVER>>

\* Drop for TestServer: self.server_process.kill()
DropTestServer(c) ==
    /\ callers[c].pc = "dropping"
    /\ servers' = [servers EXCEPT ![callers[c].server].running = FALSE]
    /\ callers' = [callers EXCEPT ![c].pc = "done"]
    /\ UNCHANGED <<NEXT_PORT, SHARED_SERVER>>

SharedStep(c) ==
    \/ CreateShared(c)
    \/ CreateSingleUse(c)
    \/ SharedLock(c)
    \/ SharedUpgrade(c)
    \/ TestServerNewCall(c)
    \/ WaitReturns(c)
    \/ WaitPanics(c)
    \/ SharedStore(c)
    \/ SharedUnlock(c)
    \/ DropFixture(c)
    \/ DropTestServer(c)

SharedNext ==
    /\ \E c \in Callers : SharedStep(c)
    /\ UNCHANGED <<colVars, tblVars, dbVars, encVars, decVars, fixVars, pqVars>>

SharedSpec == Init /\ [][SharedNext]_vars

----------------------------------------------------------------------------
(* Claims about the table batch and its columns *)

RowColumns(row) ==
    {row.tags[i].column : i \in 1..Len(row.tags)}
    \cup {row.fields[i].column : i \in 1..Len(row.fields)}
    \cup {TIME_COLUMN_NAME}

RowCountBefore == RowCount(tlast.names_before, tlast.cols_before)

\* C1: after every completed append_row all columns of the table batch have
\* the same length; a column the row did not write got a null for the row,
\* and a column the row introduced starts with one null per earlier row.
C1_ColumnsSameLength ==
    /\ \A a \in DOMAIN tcol, b \in DOMAIN tcol : ColumnLen(tcol[a]) = ColumnLen(tcol[b])
    /\ DOMAIN tcol = {tcols[i] : i \in 1..Len(tcols)}
    /\ (tlast.n > 0 /\ ~tlast.err) =>
          \A n \in DOMAIN tcol :
              /\ ColumnLen(tcol[n]) = RowCountBefore + 1
              /\ n \notin RowColumns(tlast.row) => tcol[n].vals[RowCountBefore + 1] = None
              /\ n \notin DOMAIN tlast.cols_before =>
                     \A i \in 1..RowCountBefore : tcol[n].vals[i] = None

\* a second row that omits a column of the first and introduces a new one
C1_Witness ==
    /\ tlast.n = 2 /\ ~tlast.err
    /\ \E n \in DOMAIN tcol : n \notin DOMAIN tlast.cols_before /\ tcol[n].vals[1] = None
    /\ \E n \in DOMAIN tlast.cols_before : n \notin RowColumns(tlast.row)

\* C2: stats.count + stats.null_count equals the length of the column
C2_CountPlusNullCountIsLen ==
    IsSome(col) =>
        Unwrap(col).stats.count + Unwrap(col).stats.null_count = ColumnLen(Unwrap(col))

\* the kind of values a column stores
ValuesKindOf(c) == IF c.kind \in {"String", "Tag"} THEN "String" ELSE c.kind

LogicalTypeAgrees(c, logical_type) ==
    \/ c.kind = "Tag" /\ logical_type = "Tag"
    \/ c.kind = "String" /\ logical_type = "Field"

\* C3: push_typed_values fails with TypeMismatch exactly when the kind of
\* the values differs from the column's kind, or the values are strings and
\* the logical type disagrees with the column being Tag or String; so a
\* field written to an existing tag column, and a tag written to an
\* existing field column, fail.
C3_TypeMismatchExactly ==
    /\ \A n \in DOMAIN tcol, lt \in LogicalColumnType, vs \in RowValues :
          PushTypedValues(tcol[n], tdict, lt, vs).err
              <=> \/ vs.kind # ValuesKindOf(tcol[n])
                  \/ vs.kind = "String" /\ ~LogicalTypeAgrees(tcol[n], lt)
    /\ tlast.n > 0 =>
          /\ (\E i \in 1..Len(tlast.row.fields) :
                 /\ tlast.row.fields[i].column \in DOMAIN tlast.cols_before
                 /\ tlast.cols_before[tlast.row.fields[i].column].kind = "Tag") => tlast.err
          /\ (\E i \in 1..Len(tlast.row.tags) :
                 /\ tlast.row.tags[i].column \in DOMAIN tlast.cols_before
                 /\ tlast.cols_before[tlast.row.tags[i].column].kind # "Tag") => tlast.err

\* a string field written to a column that an earlier row created as a tag
C3_Witness ==
    /\ tlast.n = 2 /\ tlast.err
    /\ \E i \in 1..Len(tlast.row.fields) :
          /\ tlast.row.fields[i].kind = "String"
          /\ tlast.row.fields[i].column \in DOMAIN tlast.cols_before
          /\ tlast.cols_before[tlast.row.fields[i].column].kind = "Tag"

\* C4: an append that fails leaves the table batch and the dictionary as
\* they were before the row; a push_typed_values that fails leaves its
\* column and the dictionary as they were.
C4_FailedAppendUnchanged ==
    /\ (tlast.n > 0 /\ tlast.err) =>
          /\ tcols = tlast.names_before
          /\ tcol = tlast.cols_before
          /\ tdict = tlast.dict_before
    /\ \A n \in DOMAIN tcol, lt \in LogicalColumnType, vs \in RowValues :
          LET r == PushTypedValues(tcol[n], tdict, lt, vs)
          IN r.err => r.col = tcol[n] /\ r.dict = tdict

\* a failing row whose tag, written first, carried a string the dictionary
\* did not hold and went to a tag column or to a new column
C4_Witness ==
    /\ tlast.n > 0 /\ tlast.err
    /\ Len(tlast.names_before) > 0
    /\ Len(tlast.row.tags) = 1
    /\ ~IsSome(DictLookup(tlast.dict_before, tlast.row.tags[1].value))
    /\ \/ tlast.row.tags[1].column \notin DOMAIN tlast.cols_before
       \/ tlast.cols_before[tlast.row.tags[1].column].kind = "Tag"

----------------------------------------------------------------------------
(* Claims about the chunks of a partition *)

PartNow(key) == Unwrap(parts[key])
PartBefore(key) == GetPartition(dlast.before, key)

\* C5: a chunk's lifecycle state only moves forward through OpenMutable,
\* ClosedMutable, Immutable, Persisted: no chunk is in a state earlier than
\* one it was observed in before.
C5_LifecycleNeverRegresses ==
    \A c \in DOMAIN seen :
        (IsSome(parts[c[1]]) /\ c[2] \in DOMAIN PartNow(c[1]).chunks) =>
            LifecycleRank(PartNow(c[1]).chunks[c[2]].state) >= seen[c]

\* a chunk went all the way to Persisted and was dropped from the mutable buffer
C5_Witness ==
    /\ dlast.op = "drop" /\ dlast.ok
    /\ PartBefore(dlast.key).chunks[dlast.id].state = "Persisted"
    /\ PartNow(dlast.key).chunks[dlast.id].state = "Persisted"

OpenChunks(part) == {id \in DOMAIN part.chunks : part.chunks[id].state = "OpenMutable"}

C7_ChunkIdsIncrease ==
    \A key \in PartitionKeys :
        /\ Len(rolled[key]) > 0 => rolled[key][1] = 0
        /\ \A i \in 1..Len(rolled[key]), j \in 1..Len(rolled[key]) :
              i < j => rolled[key][i] < rolled[key][j]
        /\ IsSome(parts[key]) =>
              \A i \in 1..Len(rolled[key]) :
                  \A id \in OpenChunks(PartNow(key)) : rolled[key][i] < id

\* a second rollover after the chunk of the first one was dropped
C7_Witness ==
    /\ dlast.op = "rollover"
    /\ Len(rolled[dlast.key]) = 2
    /\ 0 \notin DOMAIN PartBefore(dlast.key).chunks

\* C8: a write addressed to a chunk that is not OpenMutable fails and leaves
\* the database unchanged; rows written to a partition go to its open chunk
\* and to no other chunk; load to the read buffer succeeds only for a chunk
\* that is ClosedMutable.
C8_ClosedChunkRejectsWrites ==
    /\ dlast.op = "write_chunk" =>
          /\ dlast.ok <=> PartBefore(dlast.key).chunks[dlast.id].state = "OpenMutable"
          /\ ~dlast.ok => parts = dlast.before
    /\ (dlast.op \in {"write", "write_chunk"} /\ dlast.ok) =>
          /\ dlast.id \in OpenChunks(PartBefore(dlast.key))
          /\ DOMAIN PartNow(dlast.key).chunks = DOMAIN PartBefore(dlast.key).chunks
          /\ \A id \in DOMAIN PartNow(dlast.key).chunks :
                PartNow(dlast.key).chunks[id] =
                    IF id = dlast.id
                    THEN [PartBefore(dlast.key).chunks[id] EXCEPT
                             !.rows = Append(@, dlast.writes)]
                    ELSE PartBefore(dlast.key).chunks[id]
          /\ \A key \in PartitionKeys \ {dlast.key} : parts[key] = dlast.before[key]
    /\ (dlast.op = "load" /\ dlast.ok) =>
          /\ PartBefore(dlast.key).chunks[dlast.id].state = "ClosedMutable"
          /\ dlast.id \in ReadBufferChunks(PartNow(dlast.key))

\* a write to a rolled-over chunk that holds rows was refused
C8_Witness ==
    /\ dlast.op = "write_chunk" /\ ~dlast.ok
    /\ PartNow(dlast.key).chunks[dlast.id].state = "ClosedMutable"
    /\ Len(PartNow(dlast.key).chunks[dlast.id].rows) > 0

----------------------------------------------------------------------------
(* Replicated write *)

\* C9: decoding the bytes that lines_to_replicated_write produced gives an
\* envelope whose writer_and_sequence() is the (writer, sequence) of the
\* call, for which equal_to_writer_and_sequence(w, s) is true for exactly
\* that pair, and whose checksum is the CRC32 of its payload bytes.
C9_DecodeGivesWriterSequenceChecksum ==
    enc.op # "none" =>
        LET rw == TryFrom(enc.data)
        IN /\ ~enc.panic
           /\ rw.ok
           /\ writer_and_sequence(rw) = <<enc.writer, enc.sequence>>
           /\ \A w \in WriterIds, s \in SequenceNumbers :
                  equal_to_writer_and_sequence(rw, w, s)
                      <=> (w = enc.writer /\ s = enc.sequence)
           /\ IsSome(FbPayload(rw.fb))
           /\ FbChecksum(rw.fb) = CRC32(Unwrap(FbPayload(rw.fb)))

\* two lines of two partitions encoded for writer u32::MAX with a sequence
\* above 2^32, and decoded
C9_Witness ==
    /\ enc.op # "none"
    /\ enc.writer = w_max
    /\ enc.sequence = s_42_hi
    /\ Len(enc.lines) = 2
    /\ LET rw == TryFrom(enc.data)
       IN rw.ok /\ entry_count(rw) = 2 /\ FbChecksum(rw.fb) # Zero4

\* C10: two calls of lines_to_replicated_write with equal writer, sequence,
\* lines and partitioner give byte-identical payloads and equal checksums,
\* also when lines carry no timestamp.
C10_EncodingDeterministic ==
    enc.op = "again" =>
        LET first == TryFrom(enc.prev_data)
            again == TryFrom(enc.data)
        IN /\ FbPayload(again.fb) = FbPayload(first.fb)
           /\ FbChecksum(again.fb) = FbChecksum(first.fb)

\* the lines of the call that go under partition key `key` and table
\* `name`, in input order
LinesAt(key, name) ==
    SelectSeq(Indices(enc.lines), LAMBDA i :
        /\ PartitionKey(enc.partitioner, enc.lines[i], enc.default_time) = key
        /\ enc.lines[i].measurement = name)

\* the decoded row that belongs to line i: the row at the line's place
\* among the lines of its partition key and table; None when there is none
RowOfLine(rw, i) ==
    LET key == PartitionKey(enc.partitioner, enc.lines[i], enc.default_time)
        name == enc.lines[i].measurement
        at == LinesAt(key, name)
        rows == RowsAt(rw, key, name)
        pos == CHOOSE k \in 1..Len(at) : at[k] = i
    IN IF pos <= Len(rows) THEN Some(rows[pos]) ELSE None

\* the value of the last column of a decoded row
LastValue(row) == row[Len(row)]

\* C11: within one call the default time is captured once: the row of every
\* line without timestamp carries, as its time, the default time that was
\* given to the partitioner.
C11_DefaultTimeCapturedOnce ==
    enc.op # "none" =>
        LET rw == TryFrom(enc.data)
        IN \A i \in NoTimestamp(enc.lines) :
               /\ IsSome(RowOfLine(rw, i))
               /\ LastValue(Unwrap(RowOfLine(rw, i))) =
                      [column |-> TIME_COLUMN_NAME, value_type |-> I64Value,
                       value |-> I64Bytes(enc.default_time)]

\* the partition keys of the lines of the call
KeysOfCall ==
    {PartitionKey(enc.partitioner, enc.lines[i], enc.default_time) :
        i \in 1..Len(enc.lines)}

\* C12: the payload has exactly one entry per distinct partition key, the
\* entries are in ascending byte order of their key whatever the order of
\* the input lines, and entry_count() is the number of distinct keys.
C12_OneEntryPerKeyAscending ==
    enc.op # "none" =>
        LET rw == TryFrom(enc.data)
            entries == BatchEntries(rw)
        IN /\ \A k \in 1..Len(entries) : IsSome(EntryPartitionKey(entries[k]))
           /\ {Unwrap(EntryPartitionKey(entries[k])) : k \in 1..Len(entries)}
                  = KeysOfCall
           /\ \A j, k \in 1..Len(entries) :
                  j < k => LexLess(Unwrap(EntryPartitionKey(entries[j])),
                                   Unwrap(EntryPartitionKey(entries[k])))
           /\ entry_count(rw) = Cardinality(KeysOfCall)

\* two lines given in descending order of their keys, and a call whose two
\* lines share one key, have both been encoded
C12_Witness ==
    /\ enc.op = "again"
    /\ Len(enc.lines) = 2
    /\ LexLess(PartitionKey(enc.partitioner, enc.lines[2], enc.default_time),
               PartitionKey(enc.partitioner, enc.lines[1], enc.default_time))
    /\ entry_count(TryFrom(enc.data)) = 2
    /\ entry_count(TryFrom(enc.prev_data)) = 1

\* a field of a line as the (column, value_type, value) it is written as
FieldAsValue(f) ==
    [column |-> f.column,
     value_type |-> CASE f.type = "I64" -> I64Value
                      [] f.type = "U64" -> U64Value
                      [] f.type = "F64" -> F64Value
                      [] f.type = "Boolean" -> BoolValue
                      [] f.type = "String" -> StringValue,
     value |-> CASE f.type \in {"I64", "U64"} -> I64Bytes(f.value)
                 [] f.type = "Boolean" -> <<IF f.value THEN 1 ELSE 0>>
                 [] OTHER -> f.value]

TagAsValue(t) == [column |-> t.column, value_type |-> TagValue, value |-> t.value]

\* the time line i of the call was written with: its timestamp, or the
\* reading add_line made for it
TimeOfLine(i) ==
    IF IsSome(enc.lines[i].timestamp) THEN Unwrap(enc.lines[i].timestamp)
    ELSE Unwrap(enc.nows[i])

\* line i of the call as a row: its tags, its fields, its time
LineAsRow(i) ==
    LET tags == OrEmpty(enc.lines[i].tag_set)
        fields == enc.lines[i].field_set
    IN [k \in 1..Len(tags) |-> TagAsValue(tags[k])]
       \o [k \in 1..Len(fields) |-> FieldAsValue(fields[k])]
       \o <<[column |-> TIME_COLUMN_NAME, value_type |-> I64Value,
             value |-> I64Bytes(TimeOfLine(i))]>>

\* the measurements of the lines of the call under partition key `key`
MeasurementsAt(key) ==
    {enc.lines[i].measurement : i \in {j \in 1..Len(enc.lines) :
        PartitionKey(enc.partitioner, enc.lines[j], enc.default_time) = key}}

\* C13: within each entry there is exactly one table batch per distinct
\* measurement of the entry's lines, the batches are in ascending order of
\* their name, and the rows of one partition key and table are in the order
\* of the input lines.
C13_OneBatchPerMeasurementRowsInOrder ==
    enc.op # "none" =>
        LET entries == BatchEntries(TryFrom(enc.data))
        IN \A e \in 1..Len(entries) :
               LET key == OrEmpty(EntryPartitionKey(entries[e]))
                   tables == EntryTableBatches(entries[e])
               IN /\ \A t \in 1..Len(tables) : IsSome(TableName(tables[t]))
                  /\ {Unwrap(TableName(tables[t])) : t \in 1..Len(tables)}
                         = MeasurementsAt(key)
                  /\ \A j, k \in 1..Len(tables) :
                         j < k => LexLess(Unwrap(TableName(tables[j])),
                                          Unwrap(TableName(tables[k])))
                  /\ \A t \in 1..Len(tables) :
                         LET at == LinesAt(key, Unwrap(TableName(tables[t])))
                             rows == TableRows(tables[t])
                         IN [k \in 1..Len(rows) |-> DecodedRow(rows[k])]
                                = [k \in 1..Len(at) |-> LineAsRow(at[k])]

\* two lines of one partition key were given with the later measurement
\* first and encoded as two table batches of one entry
C13_Witness ==
    /\ enc.op # "none"
    /\ Len(enc.lines) = 2
    /\ Cardinality(KeysOfCall) = 1
    /\ LexLess(enc.lines[2].measurement, enc.lines[1].measurement)
    /\ LET entries == BatchEntries(TryFrom(enc.data))
       IN Len(entries) = 1 /\ Len(EntryTableBatches(entries[1])) = 2

\* line i of the call as the row it is to be found as, with the partition
\* key and table it is to be found under
LineAsPlacedRow(i) ==
    [partition_key |->
         Some(PartitionKey(enc.partitioner, enc.lines[i], enc.default_time)),
     table |-> Some(enc.lines[i].measurement),
     row |-> LineAsRow(i)]

\* C14: decoding what was encoded gives the lines back: every input line is
\* exactly one row, under the entry of its partition key and the table of
\* its measurement, with its tag and field values unchanged; no line is
\* lost, duplicated or misplaced.
C14_EncodeDecodePreservesLines ==
    enc.op # "none" =>
        LET all == AllRows(TryFrom(enc.data))
        IN /\ Len(all) = Len(enc.lines)
           /\ \A i \in 1..Len(enc.lines) :
                  Cardinality({k \in 1..Len(all) : all[k] = LineAsPlacedRow(i)})
                      = Cardinality({j \in 1..Len(enc.lines) :
                                        LineAsPlacedRow(j) = LineAsPlacedRow(i)})

\* two different lines of one partition key and one measurement, one with a
\* tag and one with a string field, were encoded and decode as two rows
C14_Witness ==
    /\ enc.op # "none"
    /\ Len(enc.lines) = 2
    /\ enc.lines[1] # enc.lines[2]
    /\ enc.lines[1].measurement = enc.lines[2].measurement
    /\ Cardinality(KeysOfCall) = 1
    /\ Len(AllRows(TryFrom(enc.data))) = 2

\* C15: every encoded row lists the tags of its line in input order, then
\* the fields in input order, then exactly one value for the column "time",
\* of type I64; a tag is always a TagValue and a string field always a
\* StringValue.
C15_RowIsTagsFieldsTime ==
    enc.op # "none" =>
        LET rw == TryFrom(enc.data)
        IN \A i \in 1..Len(enc.lines) :
               LET tags == OrEmpty(enc.lines[i].tag_set)
                   fields == enc.lines[i].field_set
                   row == OrEmpty(RowOfLine(rw, i))
               IN /\ IsSome(RowOfLine(rw, i))
                  /\ Len(row) = Len(tags) + Len(fields) + 1
                  /\ \A k \in 1..Len(tags) :
                         /\ row[k].column = tags[k].column
                         /\ row[k].value_type = TagValue
                  /\ \A k \in 1..Len(fields) :
                         /\ row[Len(tags) + k].column = fields[k].column
                         /\ row[Len(tags) + k].value_type # TagValue
                         /\ fields[k].type = "String"
                                <=> row[Len(tags) + k].value_type = StringValue
                  /\ LastValue(row).column = TIME_COLUMN_NAME
                  /\ LastValue(row).value_type = I64Value
                  /\ Cardinality({k \in 1..Len(row) :
                                    row[k].column = TIME_COLUMN_NAME}) = 1

\* a line with a tag and a line with several fields, one of them a string,
\* were encoded in one call and both rows are in the payload
C15_Witness ==
    /\ enc.op # "none"
    /\ \E i \in 1..Len(enc.lines) : Len(OrEmpty(enc.lines[i].tag_set)) > 0
    /\ \E i \in 1..Len(enc.lines) :
           /\ Len(enc.lines[i].field_set) > 1
           /\ \E k \in 1..Len(enc.lines[i].field_set) :
                  enc.lines[i].field_set[k].type = "String"
    /\ \A i \in 1..Len(enc.lines) : IsSome(RowOfLine(TryFrom(enc.data), i))

----------------------------------------------------------------------------
(* Errors as values *)

\* the last operation created a column of a supported kind from values none
\* of which is non-null
NewFromNoValues ==
    /\ colLast.op = "new"
    /\ colLast.values.kind = "String" => colLast.logical_type \in {"Tag", "Field"}
    /\ \A k \in 1..Len(colLast.values.vals) : ~IsSome(colLast.values.vals[k])

\* C19: creating a column from values that are all null, or from no values,
\* is reported to the caller as an error value for every kind of column: the
\* process is not aborted and no column is created.
C19_EmptyInsertIsAnErrorValue ==
    NewFromNoValues => (~colLast.panic /\ col = None)

\* the envelopes built without payload
PayloadAbsentEnvelopes ==
    {ReplicatedWriteCreate(w, s, c, None) :
        w \in WriterIds, s \in SequenceNumbers, c \in {Zero4, w_max}}

\* the envelopes whose payload is a batch built without entries vector
NoEntriesEnvelopes ==
    {ReplicatedWriteCreate(w, s, c, Some(WriteBufferBatchCreate(None))) :
        w \in WriterIds, s \in SequenceNumbers,
        c \in ChecksumsOf(Some(WriteBufferBatchCreate(None)))}

\* C20: an envelope whose payload is absent decodes successfully:
\* write_buffer_batch() is None and entry_count() is 0; a payload whose
\* batch has no entries vector decodes successfully with entry_count() 0.
C20_AbsentPayloadIsValidAndEmpty ==
    /\ (dec.op = "decode" /\ dec.data \in PayloadAbsentEnvelopes) =>
           /\ dec.ok
           /\ dec.rw.write_buffer_batch = None
           /\ entry_count(dec.rw) = 0
    /\ (dec.op = "decode" /\ dec.data \in NoEntriesEnvelopes) =>
           /\ dec.ok
           /\ IsSome(dec.rw.write_buffer_batch)
           /\ entry_count(dec.rw) = 0

\* an envelope of writer u32::MAX whose batch has no entries vector was
\* decoded
C20_Witness ==
    /\ dec.op = "decode"
    /\ dec.data \in NoEntriesEnvelopes
    /\ dec.ok
    /\ writer_and_sequence(dec.rw)[1] = w_max
    /\ BatchEntries(dec.rw) = <<>>

----------------------------------------------------------------------------
(* The readiness slot *)

\* the task has left wait_until_ready
Left(t) == waiters[t].pc \in {"returned", "panicked"}

\* C16: a task in wait_until_ready that finds the slot Ready returns
\* without any startup work; one that finds Error fails at once, without
\* polling and without onboarding; one that finds Started performs the
\* startup and then the slot is Ready or Error.
C16_ActsOnWhatItFinds ==
    /\ [](\A t \in Tasks :
            /\ waiters[t].found = "Ready" =>
                   /\ waiters[t].pc = "returned"
                   /\ waiters[t].polls = 0
                   /\ waiters[t].fault = "none"
            /\ waiters[t].found = "Error" =>
                   /\ waiters[t].pc = "panicked"
                   /\ waiters[t].polls = 0
                   /\ waiters[t].fault = "previous_error"
            /\ waiters[t].found = "Started" =>
                   /\ waiters[t].pc \in {"poll", "onboard", "returned", "panicked"}
                   /\ Left(t) => server.ready \in {"Ready", "Error"}
            /\ waiters[t].pc \in {"poll", "onboard"} => waiters[t].found = "Started")
    /\ \A t \in Tasks :
           (waiters[t].found = "Started") ~> (Left(t) /\ server.ready # "Started")

\* one task found Started, polled and returned; another found Ready and
\* returned
C16_Witness ==
    \E t, u \in Tasks :
        /\ waiters[t].found = "Started"
        /\ waiters[t].polls > 0
        /\ waiters[t].pc = "returned"
        /\ waiters[u].found = "Ready"
        /\ waiters[u].pc = "returned"

\* the readiness wait of some task exceeded its deadline
TimedOut == \E t \in Tasks : waiters[t].fault = "timeout"

\* C17: when the readiness wait exceeds its deadline the slot becomes
\* Error and the waiting task fails with a timeout fault; every task that
\* waits on the slot afterwards fails too, and none of them blocks forever.
C17_TimeoutFailsEveryWaiter ==
    /\ [](TimedOut =>
            /\ server.ready = "Error"
            /\ \A t \in Tasks :
                   /\ waiters[t].fault = "timeout" => waiters[t].pc = "panicked"
                   /\ waiters[t].pc # "returned"
                   /\ waiters[t].found \in {"Ready", "Error"} =>
                          /\ waiters[t].pc = "panicked"
                          /\ waiters[t].fault = "previous_error")
    /\ \A t \in Tasks :
           (TimedOut /\ waiters[t].pc \in {"lock", "match"})
               ~> (waiters[t].pc = "panicked")

\* one task timed out at the deadline, after the last tick before it, and
\* every other task waited on the slot afterwards and failed
C17_Witness ==
    /\ \E t \in Tasks :
           /\ waiters[t].fault = "timeout"
           /\ IntervalSecs * waiters[t].polls >= DeadlineSecs
    /\ \A t \in Tasks : waiters[t].pc = "panicked"
    /\ \E t \in Tasks : waiters[t].fault = "previous_error"

\* C18: the readiness slot is mutually exclusive: at any time at most one
\* task is between taking the lock and dropping the guard, which is where
\* the slot is read and written, and that task is the holder of the lock;
\* over the life of the slot at most one task carries out the startup.
C18_SlotMutuallyExclusive ==
    /\ Cardinality({t \in Tasks : waiters[t].pc \in HoldsGuard}) <= 1
    /\ \A t \in Tasks : waiters[t].pc \in HoldsGuard <=> server.holder = t
    /\ Cardinality({t \in Tasks : waiters[t].found = "Started"}) <= 1

\* one task is polling, has polled before, and every other task waits for
\* the lock
C18_Witness ==
    \E t \in Tasks :
        /\ waiters[t].pc = "poll"
        /\ waiters[t].polls > 0
        /\ \A u \in Tasks \ {t} : waiters[u].pc = "lock"

----------------------------------------------------------------------------
(* The immutable chunk *)

\* some timestamp lies in both ranges
Overlaps(a, b) ==
    \E ts \in 0..MaxTime :
        /\ a.start <= ts /\ ts < a.end
        /\ b.start <= ts /\ ts < b.end

\* the table has a range of its own and it overlaps the filter
TableOverlaps(t, filter) ==
    IsSome(t.timestamp_range) /\ Overlaps(Unwrap(t.timestamp_range), filter)

\* C21: table_names(range) yields exactly the names of the tables whose own
\* timestamp range overlaps the given range, in the order the tables were
\* added, and the names of all tables when no range is given.
C21_TableNamesOfOverlappingTables ==
    pqLast.op = "table_names" =>
        LET tables == Unwrap(pchunk).tables
            filter == pqLast.input[1]
            yielded == IF IsSome(filter)
                       THEN SelectSeq(tables,
                                LAMBDA t : TableOverlaps(t, Unwrap(filter)))
                       ELSE tables
        IN pqLast.result = [i \in 1..Len(yielded) |-> yielded[i].table_summary.name]

\* of two tables with a range the filter overlaps the second only, and the
\* second only was yielded
C21_Witness ==
    /\ pqLast.op = "table_names"
    /\ IsSome(pqLast.input[1])
    /\ Len(Unwrap(pchunk).tables) = 2
    /\ IsSome(Unwrap(pchunk).tables[1].timestamp_range)
    /\ ~TableOverlaps(Unwrap(pchunk).tables[1], Unwrap(pqLast.input[1]))
    /\ TableOverlaps(Unwrap(pchunk).tables[2], Unwrap(pqLast.input[1]))
    /\ pqLast.result = <<Unwrap(pchunk).tables[2].table_summary.name>>

\* no table of the chunk has the name that was asked for
AskedTableAbsent ==
    \A i \in 1..Len(Unwrap(pchunk).tables) :
        Unwrap(pchunk).tables[i].table_summary.name # pqLast.input[1]

\* C22: for a table name that no table of the chunk has (has_table is
\* false), table_schema and read_filter return NamedTableNotFoundInChunk
\* with that name and the id of the chunk, and column_names returns None;
\* for a name the chunk has none of the three reports the table as missing.
C22_AbsentTableIsReported ==
    /\ pqLast.op \in {"table_schema", "read_filter", "column_names"} =>
           has_table(Unwrap(pchunk), pqLast.input[1]) = ~AskedTableAbsent
    /\ pqLast.op \in {"table_schema", "read_filter"} =>
           IF AskedTableAbsent
           THEN pqLast.result = [ok |-> FALSE, error |-> "NamedTableNotFoundInChunk",
                                 table_name |-> pqLast.input[1],
                                 chunk_id |-> Unwrap(pchunk).id]
           ELSE pqLast.result.ok \/ pqLast.result.error # "NamedTableNotFoundInChunk"
    /\ pqLast.op = "column_names" =>
           (AskedTableAbsent <=> pqLast.result = None)

\* read_filter was asked for a table that chunk 7, which has two tables,
\* has not, and reported it as missing from chunk 7
C22_Witness ==
    /\ pqLast.op = "read_filter"
    /\ Len(Unwrap(pchunk).tables) = 2
    /\ Unwrap(pchunk).id = 7
    /\ AskedTableAbsent
    /\ pqLast.result.error = "NamedTableNotFoundInChunk"
    /\ pqLast.result.chunk_id = 7

\* C23: a chunk holds at most one table per measurement name: after any
\* sequence of add_table calls no two tables of the chunk have the same
\* name, and table_summaries() has at most one summary per name.
C23_OneTablePerName ==
    IsSome(pchunk) =>
        LET summaries == table_summaries(Unwrap(pchunk))
        IN \A i, j \in 1..Len(summaries) :
               summaries[i].name = summaries[j].name => i = j

\* C24: the memory tracker of the chunk is set exactly once, in Chunk::new,
\* to the size of the empty chunk: the fixed header and the bytes of the
\* partition key; add_table changes size() by the size of the added table
\* and leaves the bytes the tracker reports unchanged.
C24_TrackerSetOnceAtConstruction ==
    IsSome(pchunk) =>
        LET chunk == Unwrap(pchunk)
        IN /\ chunk.memory_tracker.sets = 1
           /\ chunk.memory_tracker.bytes =
                  SizeOfChunk + SizeOfU32 + Len(chunk.partition_key)
           /\ pqLast.op = "add_table" =>
                  LET before == Unwrap(pqLast.before)
                  IN /\ ChunkSize(chunk) = ChunkSize(before)
                            + TableSizeOf(chunk.tables[Len(chunk.tables)])
                     /\ chunk.memory_tracker = before.memory_tracker

\* a second table was added: size() is larger than the bytes the tracker
\* reports by the sizes of two tables
C24_Witness ==
    /\ pqLast.op = "add_table"
    /\ Len(Unwrap(pchunk).tables) = 2
    /\ ChunkSize(Unwrap(pchunk)) =
           Unwrap(pchunk).memory_tracker.bytes
           + TableSizeOf(Unwrap(pchunk).tables[1])
           + TableSizeOf(Unwrap(pchunk).tables[2])

----------------------------------------------------------------------------
(* Claims about one column *)

\* the last operation was a successful new_from_typed_values or
\* push_typed_values
Appended == colLast.op \in {"new", "push"} /\ ~colLast.failed

\* the entries of the column before the last operation; a new column had
\* none before its padding
EntriesBefore ==
    IF colLast.op = "new" THEN NullsOf(colLast.row_count)
    ELSE Unwrap(colLast.before).vals

\* the string a tag entry of the column stands for
TagString(entry) == dict[Unwrap(entry) + 1]

\* C25: tag values are interned through the dictionary of the chunk: two
\* non-null entries of a tag column hold the same id exactly when they were
\* appended with the same string, the id of a string never changes as more
\* strings are inserted, and the number of ids in use is the number of
\* distinct strings appended.
C25_TagsInterned ==
    (IsSome(col) /\ Unwrap(col).kind = "Tag") =>
        LET vals == Unwrap(col).vals
            ids == {Unwrap(vals[i]) : i \in {j \in 1..Len(vals) : IsSome(vals[j])}}
        IN /\ ids = 0..(Len(dict) - 1)
           /\ \A i, j \in 1..Len(dict) : dict[i] = dict[j] => i = j
           /\ SubSeq(dict, 1, Len(colLast.dict_before)) = colLast.dict_before
           /\ Appended =>
                  /\ Len(vals) = Len(EntriesBefore) + Len(colLast.values.vals)
                  /\ SubSeq(vals, 1, Len(EntriesBefore)) = EntriesBefore
                  /\ \A k \in 1..Len(colLast.values.vals) :
                         LET entry == vals[Len(EntriesBefore) + k]
                             given == colLast.values.vals[k]
                         IN /\ IsSome(entry) <=> IsSome(given)
                            /\ IsSome(given) => TagString(entry) = Unwrap(given)

\* a push gave the column a string the dictionary had and one it had not:
\* two entries hold one id, a third holds an id allocated by the push
C25_Witness ==
    /\ IsSome(col)
    /\ Unwrap(col).kind = "Tag"
    /\ colLast.op = "push"
    /\ ~colLast.failed
    /\ Len(dict) = Len(colLast.dict_before) + 1
    /\ \E i, j \in 1..Len(Unwrap(col).vals) :
           /\ i < j
           /\ IsSome(Unwrap(col).vals[i])
           /\ Unwrap(col).vals[i] = Unwrap(col).vals[j]


\* C26: push_nulls_to_len(n) on a column shorter than n makes its length
\* exactly n, keeps the existing entries and adds only nulls; on a column of
\* length n or more it changes nothing (no truncation), so a second call with
\* the same n has no further effect.  The statistics are untouched.
C26_PushNullsToLenPadsOnly ==
    colLast.op = "nulls" =>
        LET b == Unwrap(colLast.before)
            a == Unwrap(col)
            n == colLast.len
        IN /\ a.kind = b.kind
           /\ a.stats = b.stats
           /\ IF n > Len(b.vals)
              THEN /\ Len(a.vals) = n
                   /\ SubSeq(a.vals, 1, Len(b.vals)) = b.vals
                   /\ \A i \in (Len(b.vals) + 1)..n : a.vals[i] = None
              ELSE a = b
           /\ PushNullsToLen(a, n) = a

\* a column holding a value was padded by at least one null
C26_Witness ==
    /\ colLast.op = "nulls"
    /\ colLast.len > Len(Unwrap(colLast.before).vals)
    /\ \E i \in DOMAIN Unwrap(colLast.before).vals : IsSome(Unwrap(colLast.before).vals[i])
    /\ Len(Unwrap(col).vals) = colLast.len


\* what a column holds, entry by entry: a null, or the value (of a tag, the
\* string its id stands for in the dictionary d)
Contents(c, d) ==
    [i \in DOMAIN c.vals |->
        IF ~IsSome(c.vals[i]) THEN None
        ELSE IF c.kind = "Tag" THEN Some(d[Unwrap(c.vals[i]) + 1])
        ELSE c.vals[i]]

\* C27: the column new_from_typed_values returns starts with row_count nulls
\* and continues with the supplied values in input order, nulls included, so
\* its length is row_count plus the number of supplied values; strings make a
\* Tag column under the logical type Tag and a String column under Field.
C27_NewColumnIsNullsThenValues ==
    (colLast.op = "new" /\ ~colLast.failed) =>
        LET a == Unwrap(col)
            rc == colLast.row_count
            supplied == colLast.values
        IN /\ Len(a.vals) = rc + Len(supplied.vals)
           /\ Contents(a, dict) = NullsOf(rc) \o supplied.vals
           /\ supplied.kind = "String" /\ colLast.logical_type = "Tag" => a.kind = "Tag"
           /\ supplied.kind = "String" /\ colLast.logical_type = "Field" => a.kind = "String"
           /\ supplied.kind # "String" => a.kind = supplied.kind

\* a tag column was made behind a null prefix from strings with a null among them
C27_Witness ==
    /\ colLast.op = "new" /\ ~colLast.failed
    /\ colLast.row_count > 0
    /\ colLast.logical_type = "Tag"
    /\ Len(colLast.values.vals) = 2
    /\ \E i \in DOMAIN colLast.values.vals : ~IsSome(colLast.values.vals[i])
    /\ Unwrap(col).kind = "Tag"


\* the non-null values of a column (tags as their strings)
NonNullValues(c, d) ==
    {Unwrap(Contents(c, d)[i]) : i \in {j \in DOMAIN c.vals : IsSome(c.vals[j])}}

\* C28: in every reachable state the statistics of the column describe its
\* non-null values: min is the smallest and max the largest of them (in the
\* order of the values; for String and Tag the lexicographic order of the
\* strings, for Tag the tag strings and not the ids), and count is the number
\* of non-null entries.
C28_StatsDescribeNonNullValues ==
    IsSome(col) =>
        LET c == Unwrap(col)
            present == NonNullValues(c, dict)
            k == StatKind(c.kind)
        IN /\ c.stats.count = Cardinality({i \in DOMAIN c.vals : IsSome(c.vals[i])})
           /\ c.stats.min \in present
           /\ c.stats.max \in present
           /\ \A v \in present : ~ValueLess(k, v, c.stats.min) /\ ~ValueLess(k, c.stats.max, v)

\* a tag column, padded and appended to, whose smallest tag has the larger id
C28_Witness ==
    /\ colLast.op = "push" /\ ~colLast.failed
    /\ Unwrap(col).kind = "Tag"
    /\ \E i \in DOMAIN Unwrap(col).vals : ~IsSome(Unwrap(col).vals[i])
    /\ Unwrap(col).stats.count = 2
    /\ Unwrap(col).stats.min = s_east /\ Unwrap(col).stats.max = s_west
    /\ Unwrap(DictLookup(dict, s_west)) < Unwrap(DictLookup(dict, s_east))
    /\ Unwrap(colLast.before).stats.min = s_west


\* C29: every operation on an existing column keeps its entries where they
\* are (the column before is a prefix of the column after, and a tag id keeps
\* its string); a successful push_typed_values appends the supplied values in
\* input order, one entry for each, and push_nulls_to_len appends only nulls,
\* so padded nulls stay in front of whatever is appended later.
C29_AppendsPreserveOrder ==
    colLast.op \in {"push", "nulls"} =>
        LET b == Unwrap(colLast.before)
            a == Unwrap(col)
        IN /\ Len(b.vals) <= Len(a.vals)
           /\ SubSeq(a.vals, 1, Len(b.vals)) = b.vals
           /\ SubSeq(Contents(a, dict), 1, Len(b.vals)) = Contents(b, colLast.dict_before)
           /\ (colLast.op = "push" /\ ~colLast.failed) =>
                  Contents(a, dict) = Contents(b, colLast.dict_before) \o colLast.values.vals
           /\ colLast.op = "nulls" =>
                  a.vals = b.vals \o NullsOf(Len(a.vals) - Len(b.vals))

\* a value was appended behind a column that holds another value and ends
\* in a null
C29_Witness ==
    /\ colLast.op = "push" /\ ~colLast.failed
    /\ Len(colLast.values.vals) = 1
    /\ IsSome(colLast.values.vals[1])
    /\ LET b == Unwrap(colLast.before)
       IN /\ Len(b.vals) = 2
          /\ IsSome(b.vals[1])
          /\ Contents(b, colLast.dict_before)[1] # colLast.values.vals[1]
          /\ ~IsSome(b.vals[2])
          /\ ~IsSome(Unwrap(col).vals[2])
          /\ Len(Unwrap(col).vals) = 3


\* mem::size_of::<T>() of the values StatValues<T> keeps as min and as max
SizeOfValue(kind) ==
    CASE kind \in {"F64", "I64", "U64"} -> 8
      [] kind = "Bool" -> 1
      [] kind = "String" -> 24

\* the bytes size() charges per entry and, in a String column, per string
SizeOfEntries(c) ==
    SizeOfOption(c.kind) * Len(c.vals)
    + (IF c.kind = "String" THEN StringBytesSize(c.vals) ELSE 0)

\* size() never decreases over an append or a padding, it grows by the
\* per-entry size for each entry and by the bytes of each non-null string of
\* a String column, and the strings of a tag column add nothing
ColumnSizeGrowsWithEntries ==
    /\ IsSome(col) =>
          /\ ColumnSize(Unwrap(col)) - SizeOfEntries(Unwrap(col)) = SizeOfRef
          /\ Unwrap(col).kind = "Tag" =>
                ColumnSize(Unwrap(col)) = SizeOfOption("Tag") * Len(Unwrap(col).vals) + SizeOfRef
    /\ colLast.op \in {"push", "nulls"} =>
          ColumnSize(Unwrap(col)) >= ColumnSize(Unwrap(colLast.before))

\* C30: size() of a column never decreases over an append or a padding and
\* is the per-entry size times the length, plus in a String column the byte
\* lengths of the non-null strings, plus the size of the statistics, which
\* hold at least a minimum and a maximum value; tag strings are not counted.
C30_SizeCountsEntriesAndStats ==
    /\ ColumnSizeGrowsWithEntries
    /\ IsSome(col) =>
          ColumnSize(Unwrap(col)) - SizeOfEntries(Unwrap(col))
              >= 2 * SizeOfValue(StatKind(Unwrap(col).kind))


\* C31: no push_typed_values, whether it succeeds or fails, and no
\* push_nulls_to_len changes the kind of the column it is called on, and
\* type_description() returns the same name before and after; holding over
\* every step, the kind is the one the column was created with.
C31_KindNeverChanges ==
    colLast.op \in {"push", "nulls"} =>
        /\ IsSome(col)
        /\ Unwrap(col).kind = Unwrap(colLast.before).kind
        /\ Unwrap(col).kind \in ColumnKinds
        /\ ColumnTypeDescription(Unwrap(col)) = ColumnTypeDescription(Unwrap(colLast.before))

\* strings were pushed as fields at a tag column: the push failed and the
\* column is still a tag column
C31_Witness ==
    /\ colLast.op = "push" /\ colLast.failed
    /\ colLast.values.kind = "String" /\ colLast.logical_type = "Field"
    /\ Len(colLast.values.vals) > 0
    /\ Unwrap(colLast.before).kind = "Tag"
    /\ ColumnTypeDescription(Unwrap(col)) = "tag"


----------------------------------------------------------------------------
(* Claims about the two buffers of the database *)

\* the chunks of partition key before and after the last call
ChunksBefore(key) ==
    IF dlast.op # "none" /\ IsSome(dlast.before[key])
    THEN Unwrap(dlast.before[key]).chunks
    ELSE <<>>

ChunksNow(key) == IF IsSome(parts[key]) THEN Unwrap(parts[key]).chunks ELSE <<>>

\* chunk id of partition key left the mutable buffer in the last call
LeftMutableBuffer(key, id) ==
    /\ id \in DOMAIN ChunksBefore(key)
    /\ ChunksBefore(key)[id].in_mb
    /\ ~(id \in DOMAIN ChunksNow(key) /\ ChunksNow(key)[id].in_mb)

\* C32: a successful load_chunk_to_read_buffer leaves the chunk in the
\* mutable buffer and puts it, with the same rows, in the read buffer; a
\* chunk leaves the mutable buffer only in a successful
\* drop_mutable_buffer_chunk of that chunk, which changes neither the read
\* buffer nor any other chunk of the partition, the open chunk included.
C32_LoadKeepsMutableCopy ==
    /\ (dlast.op = "load" /\ dlast.ok) =>
          LET now == ChunksNow(dlast.key)
              was == ChunksBefore(dlast.key)
          IN /\ now[dlast.id].in_mb /\ now[dlast.id].in_rb
             /\ now[dlast.id].rows = was[dlast.id].rows
             /\ DOMAIN now = DOMAIN was
             /\ \A i \in DOMAIN was \ {dlast.id} : now[i] = was[i]
    /\ \A key \in PartitionKeys : \A id \in DOMAIN ChunksBefore(key) :
          LeftMutableBuffer(key, id) =>
              dlast.op = "drop" /\ dlast.ok /\ dlast.key = key /\ dlast.id = id
    /\ (dlast.op = "drop" /\ dlast.ok) =>
          LET now == ChunksNow(dlast.key)
              was == ChunksBefore(dlast.key)
          IN /\ LeftMutableBuffer(dlast.key, dlast.id)
             /\ \A i \in DOMAIN was \ {dlast.id} : i \in DOMAIN now /\ now[i] = was[i]
             /\ OpenChunkId(Unwrap(parts[dlast.key]))
                    = OpenChunkId(Unwrap(dlast.before[dlast.key]))
             /\ was[dlast.id].in_rb =>
                    /\ dlast.id \in DOMAIN now
                    /\ now[dlast.id].in_rb
                    /\ now[dlast.id].rows = was[dlast.id].rows
                    /\ now[dlast.id].state = was[dlast.id].state
             /\ \A key \in PartitionKeys \ {dlast.key} : parts[key] = dlast.before[key]

\* a loaded chunk that holds rows was dropped from the mutable buffer while
\* the open chunk of its partition holds rows too: the read buffer keeps it
C32_Witness ==
    /\ dlast.op = "drop" /\ dlast.ok
    /\ ChunksBefore(dlast.key)[dlast.id].in_rb
    /\ ChunksBefore(dlast.key)[dlast.id].in_mb
    /\ Len(ChunksBefore(dlast.key)[dlast.id].rows) > 0
    /\ ChunksNow(dlast.key)[dlast.id].in_rb
    /\ ~ChunksNow(dlast.key)[dlast.id].in_mb
    /\ Len(ChunksNow(dlast.key)[OpenChunkId(Unwrap(parts[dlast.key]))].rows) > 0


----------------------------------------------------------------------------
(* Claims about the startup of the test server *)

\* C33: the readiness slot is Ready for other tasks only when the whole
\* startup succeeded: a task that left wait_until_ready by a panic (deadline
\* passed, onboarding failed, or an earlier error found) leaves the slot in
\* Error for good, and a task finds Ready only after the task that ran the
\* startup has returned from it.
C33_ReadyOnlyAfterWholeStartup ==
    /\ \A t \in Tasks : waiters[t].pc = "panicked" => server.ready = "Error"
    /\ \A t \in Tasks :
          waiters[t].found = "Ready" =>
              \E u \in Tasks : waiters[u].found = "Started" /\ waiters[u].pc = "returned"


----------------------------------------------------------------------------
(* Claims about the shared test server and the ports *)

\* the callers that own server i: the one that is making it, and every
\* caller that has or is about to return a fixture of it
OwnersOf(i) ==
    {c \in Callers : callers[c].server = i
                      /\ callers[c].pc \in {"wait", "store", "unlock", "holding"}}

\* the shared servers whose process has not been killed
RunningShared == {i \in DOMAIN servers : servers[i].shared /\ servers[i].running}

\* C34 as stated: at most one shared TestServer is alive at a time, and a
\* caller of create_shared starts a new server only when no shared server
\* is alive.
C34_AtMostOneSharedServerAlive ==
    /\ Cardinality(RunningShared) <= 1
    /\ \A c \in Callers :
          (callers[c].kind = "shared" /\ callers[c].pc \in {"wait", "store"}) =>
              RunningShared = {callers[c].server}

\* C34: at most one shared TestServer has an owner at a time; a caller of
\* create_shared whose upgrade found a shared server still owned got that
\* server, and only a caller that found none started a new one, which is
\* then the only one owned; the strong count of a server is the number of
\* its owners, the registry not among them, and a server without owner is
\* killed or being killed by the caller that dropped it last.
C34_SharedServerReused ==
    /\ Cardinality(LiveShared(servers)) <= 1
    /\ \A c \in Callers :
          callers[c].kind = "shared" =>
              /\ callers[c].reused <=> callers[c].found # {}
              /\ callers[c].reused => callers[c].server \in callers[c].found
              /\ callers[c].pc \in {"wait", "store"} =>
                     LiveShared(servers) = {callers[c].server}
    /\ \A i \in DOMAIN servers :
          /\ servers[i].strong = Cardinality(OwnersOf(i))
          /\ servers[i].strong = 0 =>
                 \/ ~servers[i].running
                 \/ \E c \in Callers : callers[c].pc = "dropping" /\ callers[c].server = i
          /\ servers[i].strong > 0 => servers[i].running

\* two fixtures share the second shared server, made after the first was
\* dropped by its last fixture and killed
C34_Witness ==
    /\ \A c \in Callers : callers[c].pc = "holding" /\ callers[c].kind = "shared"
    /\ \E c \in Callers : callers[c].reused
    /\ \E c \in Callers : ~callers[c].reused
    /\ \E i \in DOMAIN servers :
          /\ i > 1
          /\ servers[i].strong = MaxCallers
          /\ SHARED_SERVER.weak = i
    /\ servers[1].shared /\ ~servers[1].running


\* C36: the TestServers made in a process have pairwise different HTTP
\* ports: the k-th TestServer::new gets port 8190 + k - 1, whatever the
\* interleaving of the callers, and NEXT_PORT is the port of the next one.
C36_PortsDistinct ==
    /\ \A i \in DOMAIN servers : servers[i].http_port = FirstPort + i - 1
    /\ \A i, j \in DOMAIN servers : i # j => servers[i].http_port # servers[j].http_port
    /\ NEXT_PORT = FirstPort + Len(servers)

\* two callers of create_single_use are in wait_until_ready at the same
\* time, each with a server of its own
C36_Witness ==
    /\ Len(servers) >= 2
    /\ \E c, d \in Callers :
          /\ c # d
          /\ callers[c].pc = "wait" /\ callers[d].pc = "wait"
          /\ callers[c].kind = "single" /\ callers[d].kind = "single"
          /\ servers[callers[c].server].http_port # servers[callers[d].server].http_port


----------------------------------------------------------------------------
(* Claims about decoding *)

\* payloads that are a well-framed batch, and no payload
WellFramedPayloads ==
    {None, Some(WriteBufferBatchCreate(None)), Some(WriteBufferBatchCreate(Some(<<>>)))}
    \cup {Some(BatchOfLines(lines, p)) :
              lines \in SeqsUpTo(ParsedLines, MaxLines), p \in Partitioners}

\* the envelopes a builder makes of them, with a right or a wrong checksum
WellFramedEnvelopes ==
    UNION {{ReplicatedWriteCreate(w, s, c, p) : c \in ChecksumsOf(p)} :
              w \in WriterIds, s \in SequenceNumbers, p \in WellFramedPayloads}

\* C35: try_from accepts every well-framed envelope whatever its checksum
\* field holds, giving an envelope over the bytes it got; it refuses the
\* bytes exactly when the verifier refuses the envelope or the batch in its
\* payload, and then it produces no envelope (InvalidFlatbuffer).
C35_DecodeIgnoresChecksum ==
    dec.op = "decode" =>
        /\ dec.data \in WellFramedEnvelopes =>
               /\ dec.ok
               /\ dec.rw.data = dec.data
               /\ dec.rw.fb = Root("ReplicatedWrite", dec.data).val
        /\ dec.data \notin WellFramedEnvelopes => ~dec.ok
        /\ ~dec.ok =>
               /\ dec.rw = InvalidFlatbuffer
               /\ LET fb == Root("ReplicatedWrite", dec.data)
                  IN \/ ~fb.ok
                     \/ /\ IsSome(FbPayload(fb.val))
                        /\ ~Root("WriteBufferBatch", Unwrap(FbPayload(fb.val))).ok

\* an envelope with a batch of entries was decoded although its checksum
\* field is not the CRC32 of its payload
C35_Witness ==
    /\ dec.op = "decode"
    /\ dec.ok
    /\ IsSome(FbPayload(dec.rw.fb))
    /\ entry_count(dec.rw) > 0
    /\ FbChecksum(dec.rw.fb) # CRC32(Unwrap(FbPayload(dec.rw.fb)))

====
